---- MODULE Spec2Model ----
(***************************************************************************)
(* Model of MemoryStorage (drivers/MemoryStorage.ts, the two-level cache   *)
(* with TTL expiry, LRU-by-age eviction and the per-workflow upload lock). *)
(*                                                                         *)
(* Conventions                                                             *)
(*  - A JS Map is an insertion-ordered sequence of entries; array indices  *)
(*    are 0-based as in the source (At(q, i) is q[i]).                     *)
(*  - An optional number (number | undefined) is a set with at most one    *)
(*    element: {} is undefined, {n} is n.                                  *)
(*  - Sizes are in scaled units; the capacity constants are the source's   *)
(*    constants in those units. The global ceiling is scaled per           *)
(*    specification (env.globalMaxCacheSize): close to one workflow's      *)
(*    ceiling, or five times as large as in the source.                    *)
(*  - Date.now() is the variable clock; one handler reads one instant.     *)
(*  - randomUUID() is a choice among the handles 1..MaxKeys: the next      *)
(*    unused one under Spec, any already issued one as well under          *)
(*    SpecCollide.                                                         *)
(***************************************************************************)
EXTENDS Integers, Sequences, FiniteSets, TLC

\* ---------------------------------------------------------------- bounds
MaxKeys == 3        \* uploads in one behaviour of Spec
MaxKeysLock == 2    \* uploads stored in one behaviour of SpecLock
MaxKeysCap == 4     \* uploads in one behaviour of SpecCap
MaxClock == 3       \* the clock runs from 1 to MaxClock
MaxKeysCollide == 2 \* uploads in one behaviour of SpecCollide
MaxClockLock == 2   \* the clock bound of SpecCap, SpecCollide and SpecLock
MaxCalls == 2       \* upload() invocations in flight at once
MaxKeysRoomy == 6   \* uploads in one behaviour of SpecRoomy
MaxKeysDrift == 3   \* uploads in one behaviour of SpecDrift, the first one included
MaxDrift == 3       \* how far above the size of the first file a recorded size starts
MaxVaried == 1      \* characters in which a handle text differs from the base text
MaxHeap == 6        \* entries in the heap of SpecHeap
MaxKeysHeap == 3    \* handles of one workflow in SpecHeap, when keys never repeat
MaxKeysRepeat == 1  \* handles of one workflow in SpecHeap, when keys may repeat
MaxUploadedAt == 2  \* the uploadedAt values of the entries pushed in SpecHeap

Workflows == {"w1", "w2"}
\* workflow ids are interchangeable: the callers bring them up in this order
WorkflowOrder == <<"w1", "w2">>

\* the upload requests the callers make: buffer, content type, ttl
Request(data, contentType, ttl) == [data |-> data, contentType |-> contentType, ttl |-> ttl]

Requests ==
  {Request(<<20, 20>>, "image/png", 1),
   Request(<<30, 30, 30>>, "application/pdf", 0)}

\* requests that fill the cache with small old files and large new ones
CapRequests ==
  {Request(<<10>>, "text/plain", 0), Request(<<30, 30, 30>>, "application/pdf", 0)}

\* requests made while handles may repeat
CollideRequests ==
  {Request(<<10>>, "text/plain", 1), Request(<<20, 20>>, "image/png", 0)}

\* a missing buffer: data.length throws
NullBuffer == <<-1>>

\* requests made while another upload of the workflow may be in flight
LockRequests ==
  {Request(<<10>>, "text/plain", 1), Request(<<20, 20>>, "image/png", 0),
   Request(NullBuffer, "text/plain", 0)}

\* one upload that stores and one that throws, for the lock protocol on its own
FairRequests == {Request(<<10>>, "text/plain", 1), Request(NullBuffer, "text/plain", 0)}

\* the smallest files, and files as large as the ceiling of one workflow
RoomyRequests ==
  {Request(<<10>>, "text/plain", 0), Request(<<40, 40, 40, 40>>, "video/mp4", 0)}

\* ------------------------------------------------------ program constants
DEFAULT_TTL == 3
MAX_CACHE_SIZE == 4
\* the global ceiling in scaled units: just above the ceiling of one workflow,
\* so that a few uploads reach it,
GLOBAL_MAX_CACHE_SIZE_TIGHT == 5
\* or five times the ceiling of one workflow as in the source, so that one
\* workflow on its own stays far below it
GLOBAL_MAX_CACHE_SIZE_WIDE == 20
MAX_DELETE_PER_CLEANUP == 2
MIN_FILES_TO_KEEP == 1
VALIDATION_THRESHOLD == 1

\* the environment of a behaviour: what randomUUID() may return, the requests
\* the callers make, the scaled global ceiling, the bounds
VARIABLE env

\* private static readonly GLOBAL_MAX_CACHE_SIZE
GLOBAL_MAX_CACHE_SIZE == env.globalMaxCacheSize

\* ---------------------------------------------------------------- helpers
Undefined == {}
Some(x) == {x}
ValueOf(o) == CHOOSE v \in o : TRUE
Truthy(o) == o # {} /\ o # {0}

At(q, i) == q[i + 1]
SetAt(q, i, v) == [q EXCEPT ![i + 1] = v]
MapSet(m, k, v) == [x \in (DOMAIN m) \cup {k} |-> IF x = k THEN v ELSE m[x]]
MapDelete(m, k) == [x \in (DOMAIN m) \ {k} |-> m[x]]
EmptyMap == [x \in {} |-> 0]
Abs(x) == IF x < 0 THEN 0 - x ELSE x
Max0(x) == IF x < 0 THEN 0 ELSE x

\* Array.prototype.splice(start, 1): remove one element (nothing when start
\* is past the end)
SpliceOut(q, start) ==
  IF start >= Len(q) THEN q
  ELSE [i \in 1..(Len(q) - 1) |-> IF i <= start THEN q[i] ELSE q[i + 1]]

\* Array.prototype.splice(start, 0, e): insert e at position start
SpliceIn(q, start, e) ==
  [i \in 1..(Len(q) + 1) |->
     IF i <= start THEN q[i] ELSE IF i = start + 1 THEN e ELSE q[i - 1]]

\* Array.prototype.splice(0, n): drop the first n elements
DropFirst(q, n) == [i \in 1..(Len(q) - n) |-> q[i + n]]

\* ------------------------------------------------- global eviction heap
\* h = [q |-> globalUploadQueue, idx |-> globalUploadQueueIndex]
UPLOAD_QUEUE_INDEX_KEY(workflowId, fileKey) == <<workflowId, fileKey>>

EntryKey(e) == UPLOAD_QUEUE_INDEX_KEY(e.workflowId, e.fileKey)

heapSwap(h, i, j) ==
  LET q1 == SetAt(SetAt(h.q, i, At(h.q, j)), j, At(h.q, i))
      keyI == EntryKey(At(q1, i))
      keyJ == EntryKey(At(q1, j))
  IN [q |-> q1, idx |-> MapSet(MapSet(h.idx, keyI, i), keyJ, j)]

RECURSIVE heapSiftUp(_, _)
heapSiftUp(h, index) ==
  IF index > 0
  THEN LET parentIndex == (index - 1) \div 2
       IN IF At(h.q, parentIndex).uploadedAt <= At(h.q, index).uploadedAt
          THEN h
          ELSE heapSiftUp(heapSwap(h, parentIndex, index), parentIndex)
  ELSE h

\* a heap that never sifts an entry down
heapSiftDownNever(h, index) == h

RECURSIVE heapSiftDown(_, _)
heapSiftDown(h, index) ==
  LET length == Len(h.q)
      left == 2 * index + 1
      right == 2 * index + 2
      s1 == IF left < length /\ At(h.q, left).uploadedAt < At(h.q, index).uploadedAt
            THEN left ELSE index
      smallest == IF right < length /\ At(h.q, right).uploadedAt < At(h.q, s1).uploadedAt
                  THEN right ELSE s1
  IN IF smallest = index THEN h
     ELSE heapSiftDown(heapSwap(h, index, smallest), smallest)

heapPush(h, entry) ==
  LET q1 == Append(h.q, entry)
      h1 == [q |-> q1, idx |-> MapSet(h.idx, EntryKey(entry), Len(q1) - 1)]
  IN heapSiftUp(h1, Len(q1) - 1)

\* the heap without its last entry, which heapRemove swapped there
DropLast(h, key) ==
  [q |-> SubSeq(h.q, 1, Len(h.q) - 1), idx |-> MapDelete(h.idx, key)]

\* if (index < queue.length) { heapSiftDown(index); heapSiftUp(index) }
Resift(h, index) ==
  IF index < Len(h.q) THEN heapSiftUp(heapSiftDown(h, index), index) ELSE h

\* heapRemove returns the heap after the removal; the removed entry is
\* At(h.q, index) of the heap before it
heapRemove(h, index) ==
  IF index >= Len(h.q) THEN h
  ELSE Resift(DropLast(heapSwap(h, index, Len(h.q) - 1), EntryKey(At(h.q, index))), index)

heapPop(h) == heapRemove(h, 0)

heapGetIndex(h, workflowId, fileKey) ==
  LET key == UPLOAD_QUEUE_INDEX_KEY(workflowId, fileKey)
  IN IF key \in DOMAIN h.idx THEN Some(h.idx[key]) ELSE Undefined

\* ------------------------------------------------------- storage state
\* s = [workflowCaches, globalCacheSize, nextGlobalExpirationTime,
\*      globalUploadQueue, globalUploadQueueIndex]
\* workflowCaches: Map<string, WorkflowCache> as a sequence of
\*   [workflowId, cache, cacheSize, nextExpirationTime, expirationQueue, queueIndex]
\* cache: Map<string, MemoryFile> as a sequence of
\*   [fileKey, data, contentType, uploadedAt, expiresAt]
WorkflowPos(s, workflowId) ==
  IF \E i \in 1..Len(s.workflowCaches) : s.workflowCaches[i].workflowId = workflowId
  THEN CHOOSE i \in 1..Len(s.workflowCaches) : s.workflowCaches[i].workflowId = workflowId
  ELSE 0

HasWorkflow(s, workflowId) == WorkflowPos(s, workflowId) # 0

WorkflowCache(s, workflowId) == s.workflowCaches[WorkflowPos(s, workflowId)]

SetWorkflowCache(s, workflowId, wc) ==
  [s EXCEPT !.workflowCaches[WorkflowPos(s, workflowId)] = wc]

CachePos(cache, fileKey) ==
  IF \E i \in 1..Len(cache) : cache[i].fileKey = fileKey
  THEN CHOOSE i \in 1..Len(cache) : cache[i].fileKey = fileKey
  ELSE 0

CacheHas(cache, fileKey) == CachePos(cache, fileKey) # 0

CacheGet(cache, fileKey) == cache[CachePos(cache, fileKey)]

\* Map.delete
CacheDelete(cache, fileKey) ==
  IF CacheHas(cache, fileKey) THEN SpliceOut(cache, CachePos(cache, fileKey) - 1) ELSE cache

\* Map.set: an existing key keeps its position, a new key goes last
CacheSet(cache, file) ==
  IF CacheHas(cache, file.fileKey)
  THEN [cache EXCEPT ![CachePos(cache, file.fileKey)] = file]
  ELSE Append(cache, file)

Heap(s) == [q |-> s.globalUploadQueue, idx |-> s.globalUploadQueueIndex]

SetHeap(s, h) ==
  [s EXCEPT !.globalUploadQueue = h.q, !.globalUploadQueueIndex = h.idx]

\* expirationQueue[0]?.expiresAt
HeadExpiresAt(expirationQueue) ==
  IF Len(expirationQueue) > 0 THEN Some(expirationQueue[1].expiresAt) ELSE Undefined

getOrCreateWorkflowCache(s, workflowId) ==
  IF HasWorkflow(s, workflowId) THEN s
  ELSE [s EXCEPT !.workflowCaches =
          Append(@, [workflowId |-> workflowId, cache |-> <<>>, cacheSize |-> 0,
                     nextExpirationTime |-> Undefined, expirationQueue |-> <<>>,
                     queueIndex |-> EmptyMap])]

\* an increase that is never recorded
increaseCacheSizeNever(s, workflowId, fileSize) == s

increaseCacheSize(s, workflowId, fileSize) ==
  LET wc == WorkflowCache(s, workflowId)
  IN [SetWorkflowCache(s, workflowId, [wc EXCEPT !.cacheSize = @ + fileSize])
        EXCEPT !.globalCacheSize = @ + fileSize]

\* a decrease that forgets the global counter
decreaseCacheSizeOfWorkflowOnly(s, workflowId, fileSize) ==
  LET wc == WorkflowCache(s, workflowId)
  IN SetWorkflowCache(s, workflowId, [wc EXCEPT !.cacheSize = Max0(@ - fileSize)])

decreaseCacheSize(s, workflowId, fileSize) ==
  LET wc == WorkflowCache(s, workflowId)
  IN [SetWorkflowCache(s, workflowId, [wc EXCEPT !.cacheSize = Max0(@ - fileSize)])
        EXCEPT !.globalCacheSize = Max0(@ - fileSize)]

\* the boolean MemoryStorage.delete returns
deleteResult(s, workflowId, fileKey) ==
  /\ HasWorkflow(s, workflowId)
  /\ CacheHas(WorkflowCache(s, workflowId).cache, fileKey)

\* a delete that leaves the file in the cache
DeleteFromCacheNever(s, workflowId, fileKey) == s

\* workflowCache.cache.delete(fileKey)
DeleteFromCache(s, workflowId, fileKey) ==
  SetWorkflowCache(s, workflowId,
    [WorkflowCache(s, workflowId) EXCEPT !.cache = CacheDelete(@, fileKey)])

\* heapGetIndex and, when the handle is in the heap, heapRemove
RemoveHeapEntry(s, workflowId, fileKey) ==
  IF heapGetIndex(Heap(s), workflowId, fileKey) # Undefined
  THEN SetHeap(s, heapRemove(Heap(s), ValueOf(heapGetIndex(Heap(s), workflowId, fileKey))))
  ELSE s

\* queueIndex.get and, when the handle is queued, splice and queueIndex.delete
RemoveQueueEntry(wc, fileKey) ==
  IF fileKey \in DOMAIN wc.queueIndex
  THEN [wc EXCEPT !.expirationQueue = SpliceOut(@, wc.queueIndex[fileKey]),
                  !.queueIndex = MapDelete(@, fileKey)]
  ELSE wc

\* the end of delete: an emptied cache resets its queue, any other one
\* re-reads the head of its queue
AfterDelete(wc) ==
  IF Len(wc.cache) = 0
  THEN [wc EXCEPT !.nextExpirationTime = Undefined, !.expirationQueue = <<>>,
                  !.queueIndex = EmptyMap]
  ELSE [wc EXCEPT !.nextExpirationTime = HeadExpiresAt(wc.expirationQueue)]

\* the expiration queue part of delete
RemoveFromQueue(s, workflowId, fileKey) ==
  SetWorkflowCache(s, workflowId,
    AfterDelete(RemoveQueueEntry(WorkflowCache(s, workflowId), fileKey)))

\* the state MemoryStorage.delete leaves
delete(s, workflowId, fileKey) ==
  IF ~deleteResult(s, workflowId, fileKey) THEN s
  ELSE RemoveFromQueue(
         RemoveHeapEntry(
           DeleteFromCache(
             decreaseCacheSize(s, workflowId,
               Len(CacheGet(WorkflowCache(s, workflowId).cache, fileKey).data)),
             workflowId, fileKey),
           workflowId, fileKey),
         workflowId, fileKey)

\* number of leading expirationQueue entries with now > expiresAt
RECURSIVE ExpiredCount(_, _, _)
ExpiredCount(expirationQueue, now, expiredCount) ==
  IF expiredCount < Len(expirationQueue)
     /\ ~(now <= At(expirationQueue, expiredCount).expiresAt)
  THEN ExpiredCount(expirationQueue, now, expiredCount + 1)
  ELSE expiredCount

\* the loop body of cleanupWorkflowExpired for one queue entry
RemoveExpiredFile(s, workflowId, fileKey) ==
  IF CacheHas(WorkflowCache(s, workflowId).cache, fileKey)
  THEN DeleteFromCache(
         decreaseCacheSize(s, workflowId,
           Len(CacheGet(WorkflowCache(s, workflowId).cache, fileKey).data)),
         workflowId, fileKey)
  ELSE s

\* the loop of cleanupWorkflowExpired over the first n queue entries
RECURSIVE RemoveExpiredFiles(_, _, _, _)
RemoveExpiredFiles(s, workflowId, i, n) ==
  IF i >= n THEN s
  ELSE RemoveExpiredFiles(
         RemoveExpiredFile(s, workflowId,
           At(WorkflowCache(s, workflowId).expirationQueue, i).fileKey),
         workflowId, i + 1, n)

\* expirationQueue.splice(0, expiredCount), then nextExpirationTime
TrimQueue(wc, expiredCount) ==
  [wc EXCEPT !.expirationQueue = DropFirst(@, expiredCount),
             !.nextExpirationTime =
                IF Len(wc.cache) = 0 THEN Undefined
                ELSE HeadExpiresAt(DropFirst(wc.expirationQueue, expiredCount))]

\* cleanupWorkflowExpired once expiredCount is known
RemoveExpired(s, workflowId, expiredCount) ==
  SetWorkflowCache(s, workflowId, TrimQueue(WorkflowCache(s, workflowId), expiredCount))

cleanupWorkflowExpired(s, workflowId, now) ==
  IF ~HasWorkflow(s, workflowId) THEN s
  ELSE IF Len(WorkflowCache(s, workflowId).cache) = 0 THEN s
  ELSE IF /\ Truthy(WorkflowCache(s, workflowId).nextExpirationTime)
          /\ now < ValueOf(WorkflowCache(s, workflowId).nextExpirationTime)
  THEN s
  ELSE RemoveExpired(
         RemoveExpiredFiles(s, workflowId, 0,
           ExpiredCount(WorkflowCache(s, workflowId).expirationQueue, now, 0)),
         workflowId,
         ExpiredCount(WorkflowCache(s, workflowId).expirationQueue, now, 0))

\* a workflow whose next expiration is still ahead is skipped by cleanupAllExpired
NotDue(wc, now) ==
  Truthy(wc.nextExpirationTime) /\ now < ValueOf(wc.nextExpirationTime)

\* first loop of cleanupAllExpired, the queues: every due expirationQueue is
\* trimmed, from workflow i on
RECURSIVE TrimQueues(_, _, _)
TrimQueues(s, now, i) ==
  IF i > Len(s.workflowCaches) THEN s
  ELSE TrimQueues(
         [s EXCEPT !.workflowCaches[i] =
            IF NotDue(@, now) THEN @
            ELSE TrimQueue(@, ExpiredCount(@.expirationQueue, now, 0))],
         now, i + 1)

\* the handles one workflow contributes to expiredFiles
ExpiredOf(wc, now) ==
  IF NotDue(wc, now) THEN <<>>
  ELSE [j \in 1..ExpiredCount(wc.expirationQueue, now, 0) |->
          [workflowId |-> wc.workflowId, fileKey |-> wc.expirationQueue[j].fileKey]]

\* first loop of cleanupAllExpired, the list: expiredFiles in the order of
\* workflowCaches.entries(), from workflow i on
RECURSIVE CollectExpired(_, _, _)
CollectExpired(s, now, i) ==
  IF i > Len(s.workflowCaches) THEN <<>>
  ELSE ExpiredOf(s.workflowCaches[i], now) \o CollectExpired(s, now, i + 1)

\* second loop of cleanupAllExpired: delete every collected handle
RECURSIVE DeleteCollected(_, _, _)
DeleteCollected(s, expiredFiles, i) ==
  IF i > Len(expiredFiles) THEN s
  ELSE DeleteCollected(delete(s, expiredFiles[i].workflowId, expiredFiles[i].fileKey),
                       expiredFiles, i + 1)

\* minimum of the truthy nextExpirationTime values, undefined when there is none
MinNextExpiration(s) ==
  LET times == {ValueOf(s.workflowCaches[i].nextExpirationTime) :
                  i \in {j \in 1..Len(s.workflowCaches) :
                           Truthy(s.workflowCaches[j].nextExpirationTime)}}
  IN IF times = {} THEN Undefined
     ELSE Some(CHOOSE t \in times : \A u \in times : t <= u)

\* the end of cleanupAllExpired
UpdateNextGlobalExpiration(s) ==
  [s EXCEPT !.nextGlobalExpirationTime =
     IF Len(s.workflowCaches) > 0 THEN MinNextExpiration(s) ELSE Undefined]

cleanupAllExpired(s, now) ==
  IF Truthy(s.nextGlobalExpirationTime) /\ now < ValueOf(s.nextGlobalExpirationTime)
  THEN s
  ELSE UpdateNextGlobalExpiration(
         DeleteCollected(TrimQueues(s, now, 1), CollectExpired(s, now, 1), 1))

\* Array.prototype.sort((a, b) => a.uploadedAt - b.uploadedAt), which is stable
RECURSIVE SortByUploadedAt(_)
SortByUploadedAt(entries) ==
  IF Len(entries) <= 1 THEN entries
  ELSE LET m == CHOOSE i \in 1..Len(entries) :
                  /\ \A j \in 1..Len(entries) : entries[i].uploadedAt <= entries[j].uploadedAt
                  /\ \A j \in 1..(i - 1) : entries[j].uploadedAt > entries[i].uploadedAt
       IN <<entries[m]>> \o SortByUploadedAt(SpliceOut(entries, m - 1))

\* the for loop of cleanupOldestInWorkflow without the MIN_FILES_TO_KEEP test
RECURSIVE OldestInWorkflowLoopNoFloor(_, _, _, _, _, _, _)
OldestInWorkflowLoopNoFloor(s, workflowId, requiredSpace, entries, i, freedSpace, deletedCount) ==
  IF i > Len(entries) THEN s
  ELSE IF freedSpace >= requiredSpace \/ deletedCount >= MAX_DELETE_PER_CLEANUP THEN s
  ELSE OldestInWorkflowLoopNoFloor(delete(s, workflowId, entries[i].fileKey), workflowId,
                                   requiredSpace, entries, i + 1,
                                   freedSpace + Len(entries[i].data), deletedCount + 1)

\* the for loop of cleanupOldestInWorkflow from entry i on
RECURSIVE OldestInWorkflowLoop(_, _, _, _, _, _, _)
OldestInWorkflowLoop(s, workflowId, requiredSpace, entries, i, freedSpace, deletedCount) ==
  IF i > Len(entries) THEN s
  ELSE IF freedSpace >= requiredSpace \/ deletedCount >= MAX_DELETE_PER_CLEANUP THEN s
  ELSE IF Len(entries) - deletedCount <= MIN_FILES_TO_KEEP THEN s
  ELSE OldestInWorkflowLoop(delete(s, workflowId, entries[i].fileKey), workflowId,
                            requiredSpace, entries, i + 1,
                            freedSpace + Len(entries[i].data), deletedCount + 1)

cleanupOldestInWorkflow(s, workflowId, requiredSpace) ==
  IF ~HasWorkflow(s, workflowId) THEN s
  ELSE OldestInWorkflowLoop(s, workflowId, requiredSpace,
                            SortByUploadedAt(WorkflowCache(s, workflowId).cache), 1, 0, 0)

RECURSIVE OldestGlobalLoop(_, _, _, _)
\* the body of the while loop of cleanupOldestGlobal once entry was popped
EvictPopped(s, entry, requiredSpace, freedSpace, deletedCount) ==
  IF ~HasWorkflow(s, entry.workflowId)
  THEN OldestGlobalLoop(s, requiredSpace, freedSpace, deletedCount)
  ELSE IF ~CacheHas(WorkflowCache(s, entry.workflowId).cache, entry.fileKey)
  THEN OldestGlobalLoop(s, requiredSpace, freedSpace, deletedCount)
  ELSE OldestGlobalLoop(
         delete(s, entry.workflowId, entry.fileKey), requiredSpace,
         freedSpace + Len(CacheGet(WorkflowCache(s, entry.workflowId).cache,
                                   entry.fileKey).data),
         deletedCount + 1)

\* the while loop of cleanupOldestGlobal without the MAX_DELETE_PER_CLEANUP test
OldestGlobalLoopUncapped(s, requiredSpace, freedSpace, deletedCount) ==
  IF freedSpace < requiredSpace /\ Len(s.globalUploadQueue) > 0
  THEN EvictPopped(SetHeap(s, heapPop(Heap(s))), At(s.globalUploadQueue, 0),
                   requiredSpace, freedSpace, deletedCount)
  ELSE s

\* the while loop of cleanupOldestGlobal
OldestGlobalLoop(s, requiredSpace, freedSpace, deletedCount) ==
  IF freedSpace < requiredSpace /\ deletedCount < MAX_DELETE_PER_CLEANUP
     /\ Len(s.globalUploadQueue) > 0
  THEN EvictPopped(SetHeap(s, heapPop(Heap(s))), At(s.globalUploadQueue, 0),
                   requiredSpace, freedSpace, deletedCount)
  ELSE s

cleanupOldestGlobal(s, requiredSpace) == OldestGlobalLoop(s, requiredSpace, 0, 0)

\* ------------------------------------------------------- uploadInternal
\* const expiresAt = now + (ttl || this.DEFAULT_TTL)
ExpiresAt(now, ttl) == now + (IF ttl # 0 THEN ttl ELSE DEFAULT_TTL)

\* the lazy global expiry pass: the first if of uploadInternal
GlobalExpiryDue(s, now) ==
  IF Truthy(s.nextGlobalExpirationTime) /\ now >= ValueOf(s.nextGlobalExpirationTime)
  THEN cleanupAllExpired(s, now) ELSE s

\* the expiry pass inside the global size check
GlobalExpiryFull(s, fileSize, now) ==
  IF s.globalCacheSize + fileSize > GLOBAL_MAX_CACHE_SIZE
  THEN cleanupAllExpired(s, now) ELSE s

\* the two global expiry passes
GlobalExpiry(s, fileSize, now) ==
  GlobalExpiryFull(GlobalExpiryDue(s, now), fileSize, now)

\* global eviction when the file still does not fit after the expiry pass
GlobalEviction(s, fileSize) ==
  IF s.globalCacheSize + fileSize > GLOBAL_MAX_CACHE_SIZE
  THEN cleanupOldestGlobal(s, fileSize) ELSE s

\* the lazy expiry pass of the workflow
WorkflowExpiryDue(s, workflowId, now) ==
  IF /\ Truthy(WorkflowCache(s, workflowId).nextExpirationTime)
     /\ now >= ValueOf(WorkflowCache(s, workflowId).nextExpirationTime)
  THEN cleanupWorkflowExpired(s, workflowId, now) ELSE s

\* the expiry pass inside the workflow size check
WorkflowExpiryFull(s, workflowId, fileSize, now) ==
  IF WorkflowCache(s, workflowId).cacheSize + fileSize > MAX_CACHE_SIZE
  THEN cleanupWorkflowExpired(s, workflowId, now) ELSE s

\* the two expiry passes of the workflow
WorkflowExpiry(s, workflowId, fileSize, now) ==
  WorkflowExpiryFull(WorkflowExpiryDue(s, workflowId, now), workflowId, fileSize, now)

\* eviction for the workflow's ceiling that takes the oldest files of any workflow
WorkflowEvictionAnyWorkflow(s, workflowId, fileSize) ==
  IF WorkflowCache(s, workflowId).cacheSize + fileSize > MAX_CACHE_SIZE
  THEN cleanupOldestGlobal(s, fileSize) ELSE s

\* eviction inside the workflow when the file still does not fit
WorkflowEviction(s, workflowId, fileSize) ==
  IF WorkflowCache(s, workflowId).cacheSize + fileSize > MAX_CACHE_SIZE
  THEN cleanupOldestInWorkflow(s, workflowId, fileSize) ELSE s

\* binary search for the insert position in expirationQueue
RECURSIVE InsertIndex(_, _, _, _, _)
InsertIndex(expirationQueue, expiresAt, left, right, insertIndex) ==
  IF left <= right
  THEN LET mid == (left + right) \div 2
       IN IF At(expirationQueue, mid).expiresAt <= expiresAt
          THEN InsertIndex(expirationQueue, expiresAt, mid + 1, right, insertIndex)
          ELSE InsertIndex(expirationQueue, expiresAt, left, mid - 1, mid)
  ELSE insertIndex

\* queueIndex.get, splice and queueIndex.delete for a file that is replaced
UnqueueFile(s, workflowId, fileKey) ==
  SetWorkflowCache(s, workflowId, RemoveQueueEntry(WorkflowCache(s, workflowId), fileKey))

\* if (workflowCache.cache.has(fileKey)): the file stored under the handle
\* gives its size and its queue entry up
ReplaceExisting(s, workflowId, fileKey) ==
  IF CacheHas(WorkflowCache(s, workflowId).cache, fileKey)
  THEN UnqueueFile(
         decreaseCacheSize(s, workflowId,
           Len(CacheGet(WorkflowCache(s, workflowId).cache, fileKey).data)),
         workflowId, fileKey)
  ELSE s

\* cache.set and increaseCacheSize
StoreFile(s, workflowId, file) ==
  increaseCacheSize(
    SetWorkflowCache(s, workflowId,
      [WorkflowCache(s, workflowId) EXCEPT !.cache = CacheSet(@, file)]),
    workflowId, Len(file.data))

\* heapPush of the new file
PushUpload(s, workflowId, file) ==
  SetHeap(s, heapPush(Heap(s), [workflowId |-> workflowId, fileKey |-> file.fileKey,
                                uploadedAt |-> file.uploadedAt]))

\* splice at insertIndex, queueIndex.set, nextExpirationTime
Enqueue(wc, file, insertIndex) ==
  [wc EXCEPT !.expirationQueue =
                SpliceIn(@, insertIndex, [fileKey |-> file.fileKey, expiresAt |-> file.expiresAt]),
             !.queueIndex = MapSet(@, file.fileKey, insertIndex),
             !.nextExpirationTime =
                HeadExpiresAt(SpliceIn(wc.expirationQueue, insertIndex,
                                [fileKey |-> file.fileKey, expiresAt |-> file.expiresAt]))]

\* the new file enters the workflow's expirationQueue
QueueFile(s, workflowId, file) ==
  SetWorkflowCache(s, workflowId,
    Enqueue(WorkflowCache(s, workflowId), file,
      InsertIndex(WorkflowCache(s, workflowId).expirationQueue, file.expiresAt, 0,
                  Len(WorkflowCache(s, workflowId).expirationQueue) - 1,
                  Len(WorkflowCache(s, workflowId).expirationQueue))))

\* the last if of uploadInternal
NoteExpiration(s, expiresAt) ==
  IF ~Truthy(s.nextGlobalExpirationTime) \/ expiresAt < ValueOf(s.nextGlobalExpirationTime)
  THEN [s EXCEPT !.nextGlobalExpirationTime = Some(expiresAt)]
  ELSE s

\* from "const file" to the end of uploadInternal
InsertFile(s, workflowId, file) ==
  NoteExpiration(
    QueueFile(
      PushUpload(
        StoreFile(ReplaceExisting(s, workflowId, file.fileKey), workflowId, file),
        workflowId, file),
      workflowId, file),
    file.expiresAt)

\* the state right before "const file": after all expiry and eviction
BeforeInsert(s, workflowId, fileSize, now) ==
  WorkflowEviction(
    WorkflowExpiry(
      getOrCreateWorkflowCache(
        GlobalEviction(GlobalExpiry(s, fileSize, now), fileSize), workflowId),
      workflowId, fileSize, now),
    workflowId, fileSize)

uploadInternal(s, workflowId, data, contentType, ttl, fileKey, now) ==
  InsertFile(BeforeInsert(s, workflowId, Len(data), now), workflowId,
             [fileKey |-> fileKey, data |-> data, contentType |-> contentType,
              uploadedAt |-> now, expiresAt |-> ExpiresAt(now, ttl)])

\* ------------------------------------------------- download, clear, validate
Null == [data |-> <<>>, contentType |-> "null"]

\* a live, unexpired file is served
DownloadHits(s, workflowId, fileKey, now) ==
  /\ HasWorkflow(s, workflowId)
  /\ CacheHas(WorkflowCache(s, workflowId).cache, fileKey)
  /\ ~(now > CacheGet(WorkflowCache(s, workflowId).cache, fileKey).expiresAt)

\* a download that looks the handle up in every workflow's cache
downloadResultAnyWorkflow(s, workflowId, fileKey, now) ==
  IF \E i \in 1..Len(s.workflowCaches) :
        /\ CacheHas(s.workflowCaches[i].cache, fileKey)
        /\ ~(now > CacheGet(s.workflowCaches[i].cache, fileKey).expiresAt)
  THEN LET i == CHOOSE i \in 1..Len(s.workflowCaches) :
                  /\ CacheHas(s.workflowCaches[i].cache, fileKey)
                  /\ ~(now > CacheGet(s.workflowCaches[i].cache, fileKey).expiresAt)
           file == CacheGet(s.workflowCaches[i].cache, fileKey)
       IN [data |-> file.data, contentType |-> file.contentType]
  ELSE Null

\* a download that serves a file whatever its expiresAt
downloadResultServesExpired(s, workflowId, fileKey, now) ==
  IF HasWorkflow(s, workflowId) /\ CacheHas(WorkflowCache(s, workflowId).cache, fileKey)
  THEN [data |-> CacheGet(WorkflowCache(s, workflowId).cache, fileKey).data,
        contentType |-> CacheGet(WorkflowCache(s, workflowId).cache, fileKey).contentType]
  ELSE Null

\* the value MemoryStorage.download resolves to
downloadResult(s, workflowId, fileKey, now) ==
  IF DownloadHits(s, workflowId, fileKey, now)
  THEN LET file == CacheGet(WorkflowCache(s, workflowId).cache, fileKey)
       IN [data |-> file.data, contentType |-> file.contentType]
  ELSE Null

\* a download that leaves an expired file where it is
downloadKeepsExpired(s, workflowId, fileKey, now) == s

\* the state MemoryStorage.download leaves
download(s, workflowId, fileKey, now) ==
  IF /\ HasWorkflow(s, workflowId)
     /\ CacheHas(WorkflowCache(s, workflowId).cache, fileKey)
     /\ now > CacheGet(WorkflowCache(s, workflowId).cache, fileKey).expiresAt
  THEN delete(s, workflowId, fileKey)
  ELSE s

\* the for loop of clear(workflowId) over cache.entries(), from entry i on
RECURSIVE ClearLoop(_, _, _, _)
ClearLoop(s, workflowId, entries, i) ==
  IF i > Len(entries) THEN s
  ELSE ClearLoop(
         RemoveHeapEntry(decreaseCacheSize(s, workflowId, Len(entries[i].data)),
                         workflowId, entries[i].fileKey),
         workflowId, entries, i + 1)

\* the end of clear(workflowId): the emptied workflow cache stays in the map
ClearCache(s, workflowId) ==
  SetWorkflowCache(s, workflowId,
    [WorkflowCache(s, workflowId) EXCEPT !.cache = <<>>, !.expirationQueue = <<>>,
                                         !.cacheSize = 0,
                                         !.nextExpirationTime = Undefined])

\* clear(workflowId), without the upload lock
clear(s, workflowId) ==
  IF ~HasWorkflow(s, workflowId) THEN s
  ELSE ClearCache(ClearLoop(s, workflowId, WorkflowCache(s, workflowId).cache, 1),
                  workflowId)

\* clear(), without the upload locks
clearAll ==
  [workflowCaches |-> <<>>, globalCacheSize |-> 0,
   nextGlobalExpirationTime |-> Undefined,
   globalUploadQueue |-> <<>>, globalUploadQueueIndex |-> EmptyMap]

RECURSIVE SumSizes(_)
SumSizes(cache) ==
  IF Len(cache) = 0 THEN 0 ELSE Len(cache[1].data) + SumSizes(Tail(cache))

RECURSIVE GlobalActual(_, _)
GlobalActual(s, i) ==
  IF i > Len(s.workflowCaches) THEN 0
  ELSE SumSizes(s.workflowCaches[i].cache) + GlobalActual(s, i + 1)

\* the boolean validateCacheSize returns
validateResult(s, workflowId) ==
  /\ HasWorkflow(s, workflowId)
  /\ Abs(WorkflowCache(s, workflowId).cacheSize
         - SumSizes(WorkflowCache(s, workflowId).cache)) > VALIDATION_THRESHOLD

\* a correction that leaves the recorded size as it is
CorrectWorkflowNever(s, workflowId) == s

\* workflowCache.cacheSize = actualSize
CorrectWorkflow(s, workflowId) ==
  SetWorkflowCache(s, workflowId,
    [WorkflowCache(s, workflowId) EXCEPT !.cacheSize =
       SumSizes(WorkflowCache(s, workflowId).cache)])

\* the global counter is recomputed and corrected when it is off too
CorrectGlobal(s) ==
  IF Abs(s.globalCacheSize - GlobalActual(s, 1)) > VALIDATION_THRESHOLD
  THEN [s EXCEPT !.globalCacheSize = GlobalActual(s, 1)]
  ELSE s

\* the state validateCacheSize leaves
validateCacheSize(s, workflowId) ==
  IF ~validateResult(s, workflowId) THEN s
  ELSE CorrectGlobal(CorrectWorkflow(s, workflowId))

\* ------------------------------------------------------------ the program
VARIABLES
  workflowCaches,            \* Map<string, WorkflowCache>
  globalCacheSize,
  nextGlobalExpirationTime,
  globalUploadQueue,         \* the global eviction heap
  globalUploadQueueIndex,    \* "workflowId:fileKey" -> heap position
  uploadLocks,               \* Map<string, Promise>: workflowId -> the call owning the lock
  calls,                     \* the upload() invocations in flight and their promises
  clock,                     \* Date.now()
  nextKey,                   \* the number of the next upload: its handle, unless handles repeat
  last                       \* the last operation that changed the state

storage == <<workflowCaches, globalCacheSize, nextGlobalExpirationTime, globalUploadQueue,
             globalUploadQueueIndex>>

vars == <<workflowCaches, globalCacheSize, nextGlobalExpirationTime, globalUploadQueue,
          globalUploadQueueIndex, uploadLocks, calls, clock, nextKey, env, last>>

Calls == 1..MaxCalls

St ==
  [workflowCaches |-> workflowCaches, globalCacheSize |-> globalCacheSize,
   nextGlobalExpirationTime |-> nextGlobalExpirationTime,
   globalUploadQueue |-> globalUploadQueue,
   globalUploadQueueIndex |-> globalUploadQueueIndex]

Install(s) ==
  /\ workflowCaches' = s.workflowCaches
  /\ globalCacheSize' = s.globalCacheSize
  /\ nextGlobalExpirationTime' = s.nextGlobalExpirationTime
  /\ globalUploadQueue' = s.globalUploadQueue
  /\ globalUploadQueueIndex' = s.globalUploadQueueIndex

\* the live blobs, as <<workflowId, fileKey>>
Live(s) ==
  UNION {{<<s.workflowCaches[i].workflowId, s.workflowCaches[i].cache[j].fileKey>> :
            j \in 1..Len(s.workflowCaches[i].cache)} : i \in 1..Len(s.workflowCaches)}

Idle ==
  [state |-> "idle", workflowId |-> "", data |-> <<>>, contentType |-> "", ttl |-> 0,
   at |-> 0, awaiting |-> 0, fileKey |-> 0, removed |-> FALSE, retried |-> FALSE]

\* bookkeeping for the claims: retried marks a call that ran its own upload
\* after the promise it awaited rejected; a call's blob is marked removed once the blob
\* stored under its handle left the cache or was replaced
Track(cs, s, replaced) ==
  [c \in DOMAIN cs |->
     IF /\ cs[c].fileKey # 0
        /\ \/ <<cs[c].workflowId, cs[c].fileKey>> \notin Live(s)
           \/ <<cs[c].workflowId, cs[c].fileKey>> \in replaced
     THEN [cs[c] EXCEPT !.removed = TRUE]
     ELSE cs[c]]

NoOp == [op |-> "init", workflowId |-> "", fileKey |-> 0, removed |-> {}]

Op(op, workflowId, fileKey) ==
  [NoOp EXCEPT !.op = op, !.workflowId = workflowId, !.fileKey = fileKey]

\* the values randomUUID() can return
generateFileKey ==
  IF env.collisions THEN {k \in 1..env.maxKeys : k <= nextKey /\ nextKey <= env.maxKeys}
  ELSE {k \in 1..env.maxKeys : k = nextKey}

Start(e) ==
  /\ workflowCaches = <<>>
  /\ globalCacheSize = 0
  /\ nextGlobalExpirationTime = Undefined
  /\ globalUploadQueue = <<>>
  /\ globalUploadQueueIndex = EmptyMap
  /\ uploadLocks = EmptyMap
  /\ calls = [c \in Calls |-> Idle]
  /\ clock = 1
  /\ nextKey = 1
  /\ env = e
  /\ last = NoOp

\* handles never repeat
Init ==
  Start([collisions |-> FALSE, requests |-> Requests,
         globalMaxCacheSize |-> GLOBAL_MAX_CACHE_SIZE_TIGHT, maxKeys |-> MaxKeys,
         maxClock |-> MaxClock, history |-> TRUE])

\* randomUUID() may return a handle it returned before
InitCollide ==
  Start([collisions |-> TRUE, requests |-> CollideRequests,
         globalMaxCacheSize |-> GLOBAL_MAX_CACHE_SIZE_TIGHT, maxKeys |-> MaxKeysCollide,
         maxClock |-> MaxClockLock, history |-> FALSE])

\* many small files, then large ones
InitCap ==
  Start([collisions |-> FALSE, requests |-> CapRequests,
         globalMaxCacheSize |-> GLOBAL_MAX_CACHE_SIZE_TIGHT, maxKeys |-> MaxKeysCap,
         maxClock |-> MaxClockLock, history |-> TRUE])

\* one workflow's ceiling reached far below the global ceiling
InitRoomy ==
  Start([collisions |-> FALSE, requests |-> RoomyRequests,
         globalMaxCacheSize |-> GLOBAL_MAX_CACHE_SIZE_WIDE, maxKeys |-> MaxKeysRoomy,
         maxClock |-> MaxClockLock, history |-> TRUE])

\* the storage after one upload to w1, with the recorded sizes set by hand
Drifted(cacheSize, globalSize) ==
  [uploadInternal(clearAll, "w1", <<30, 30, 30>>, "application/pdf", 0, 1, 1)
     EXCEPT !.workflowCaches[1].cacheSize = cacheSize, !.globalCacheSize = globalSize]

\* the recorded sizes have drifted from the actual ones ("manual cache
\* modifications", "potential bugs that cause cacheSize to drift"): the
\* inputs validateCacheSize is written for
InitDrift ==
  /\ env = [collisions |-> FALSE, requests |-> CapRequests,
            globalMaxCacheSize |-> GLOBAL_MAX_CACHE_SIZE_WIDE, maxKeys |-> MaxKeysDrift,
            maxClock |-> MaxClockLock, history |-> TRUE]
  /\ \E cacheSize \in 0..(3 + MaxDrift), globalSize \in 0..(3 + MaxDrift) :
        /\ workflowCaches = Drifted(cacheSize, globalSize).workflowCaches
        /\ globalCacheSize = Drifted(cacheSize, globalSize).globalCacheSize
        /\ nextGlobalExpirationTime = Drifted(cacheSize, globalSize).nextGlobalExpirationTime
        /\ globalUploadQueue = Drifted(cacheSize, globalSize).globalUploadQueue
        /\ globalUploadQueueIndex = Drifted(cacheSize, globalSize).globalUploadQueueIndex
  /\ uploadLocks = EmptyMap
  /\ calls = [c \in Calls |-> Idle]
  /\ clock = 1
  /\ nextKey = 2
  /\ last = NoOp

\* overlapping uploads, some of them failing
InitLock ==
  Start([collisions |-> FALSE, requests |-> LockRequests,
         globalMaxCacheSize |-> GLOBAL_MAX_CACHE_SIZE_TIGHT, maxKeys |-> MaxKeysLock,
         maxClock |-> MaxClockLock, history |-> FALSE])

\* overlapping uploads of one buffer, some of them failing
InitLockFair ==
  Start([collisions |-> FALSE, requests |-> FairRequests,
         globalMaxCacheSize |-> GLOBAL_MAX_CACHE_SIZE_TIGHT, maxKeys |-> MaxKeysLock,
         maxClock |-> MaxClockLock, history |-> FALSE])

\* the state an upload step leaves, and what the step records about itself:
\* the files it removed by expiry and eviction
Uploaded(s1, workflowId, fileKey) ==
  /\ Install(s1)
  /\ last' = IF env.history
             THEN [op |-> "upload", workflowId |-> workflowId, fileKey |-> fileKey,
                   removed |-> Live(St) \ Live(s1)]
             ELSE last

\* upload() with no other upload of the workflow in flight: the lock is set
\* after uploadInternal ran and deleted again when the promise settles
Put(workflowId, data, contentType, ttl) ==
  /\ workflowId \notin DOMAIN uploadLocks
  /\ \E fileKey \in generateFileKey :
       Uploaded(uploadInternal(St, workflowId, data, contentType, ttl, fileKey, clock),
                workflowId, fileKey)
  /\ nextKey' = nextKey + 1
  /\ UNCHANGED <<uploadLocks, calls, clock, env>>

\* a storage operation that is not an upload: it leaves s1, and is recorded
\* when it changed something
Apply(s1, op) ==
  /\ Install(s1)
  /\ calls' = Track(calls, s1, {})
  /\ last' = IF s1 = St \/ ~env.history THEN last ELSE op
  /\ UNCHANGED <<clock, nextKey, env>>

Download(workflowId, fileKey) ==
  /\ Apply(download(St, workflowId, fileKey, clock),
           Op("download", workflowId, fileKey))
  /\ UNCHANGED uploadLocks

Delete(workflowId, fileKey) ==
  /\ Apply(delete(St, workflowId, fileKey), Op("delete", workflowId, fileKey))
  /\ UNCHANGED uploadLocks

CleanupWorkflowExpired(workflowId) ==
  /\ Apply(cleanupWorkflowExpired(St, workflowId, clock),
           Op("cleanupWorkflowExpired", workflowId, 0))
  /\ UNCHANGED uploadLocks

CleanupAllExpired ==
  /\ Apply(cleanupAllExpired(St, clock), Op("cleanupAllExpired", "", 0))
  /\ UNCHANGED uploadLocks

Clear(workflowId) ==
  /\ Apply(clear(St, workflowId), Op("clear", workflowId, 0))
  /\ uploadLocks' = MapDelete(uploadLocks, workflowId)

ClearAll ==
  /\ Apply(clearAll, Op("clearAll", "", 0))
  /\ uploadLocks' = EmptyMap

ValidateCacheSize(workflowId) ==
  /\ Apply(validateCacheSize(St, workflowId), Op("validateCacheSize", workflowId, 0))
  /\ UNCHANGED uploadLocks

\* ------------------------------------------- the text of a handle, the webhook
\* randomUUID() returns 36 characters: 32 hexadecimal digits in lower case in
\* groups of 8, 4, 4, 4 and 12 separated by "-", the first digit of the third
\* group "4" and the first digit of the fourth group one of "8", "9", "a", "b"
UUIDHyphens == {9, 14, 19, 24}

UUIDVersionAt == 15

UUIDVariantAt == 20

UUIDLength == 36

\* the hexadecimal digits the model draws from, and the variant digits
HexSample == {"0", "9", "a", "f"}

VariantDigits == {"8", "9", "a", "b"}

BaseUUID ==
  [p \in 1..UUIDLength |->
     IF p \in UUIDHyphens THEN "-"
     ELSE IF p = UUIDVersionAt THEN "4"
     ELSE IF p = UUIDVariantAt THEN "8"
     ELSE "0"]

\* the texts that differ from BaseUUID in at most n digits
RECURSIVE VariedUUIDs(_)
VariedUUIDs(n) ==
  IF n = 0 THEN {BaseUUID}
  ELSE VariedUUIDs(n - 1)
         \cup {[u EXCEPT ![p] = c] :
                 u \in VariedUUIDs(n - 1),
                 p \in (1..UUIDLength) \ (UUIDHyphens \cup {UUIDVersionAt, UUIDVariantAt}),
                 c \in HexSample}
         \cup {[u EXCEPT ![UUIDVariantAt] = c] : u \in VariedUUIDs(n - 1), c \in VariantDigits}

\* the values randomUUID() returns, as text
RandomUUIDs == VariedUUIDs(MaxVaried)

\* [0-9]
IsDigit(c) == c \in {"0", "1", "2", "3", "4", "5", "6", "7", "8", "9"}

\* [a-z0-9] with the i flag
IsAlphanumeric(c) ==
  \/ IsDigit(c)
  \/ c \in {"a", "b", "c", "d", "e", "f", "g", "h", "i", "j", "k", "l", "m", "n", "o", "p",
            "q", "r", "s", "t", "u", "v", "w", "x", "y", "z",
            "A", "B", "C", "D", "E", "F", "G", "H", "I", "J", "K", "L", "M", "N", "O", "P",
            "Q", "R", "S", "T", "U", "V", "W", "X", "Y", "Z"}

\* /^[0-9]+-[a-z0-9]+$/i.test(fileKey): digits, one "-", letters and digits
fileKeyPattern(fileKey) ==
  \E i \in 2..(Len(fileKey) - 1) :
     /\ fileKey[i] = "-"
     /\ \A j \in 1..(i - 1) : IsDigit(fileKey[j])
     /\ \A j \in (i + 1)..Len(fileKey) : IsAlphanumeric(fileKey[j])

isValidFileKey(fileKey) ==
  IF Len(fileKey) = 0 THEN FALSE ELSE fileKeyPattern(fileKey)

\* a step of a caller of the storage (the webhook, a caller of upload or
\* download) is recorded, the storage it leaves installed
CallerStep(s1, op, workflowId, fileKey) ==
  /\ Install(s1)
  /\ calls' = Track(calls, s1, {})
  /\ last' = Op(op, workflowId, fileKey)
  /\ UNCHANGED <<clock, nextKey, env, uploadLocks>>

\* BinaryToUrl.webhook for a handle an upload returned. The model keeps handles
\* as numbers, not their text: the endpoint is run with every text
\* generateFileKey() can have returned for the handle
Webhook(workflowId, fileKey) ==
  /\ fileKey < nextKey
  /\ \E text \in RandomUUIDs :
        IF ~isValidFileKey(text)
        THEN CallerStep(St, "webhook 400", workflowId, fileKey)
        ELSE IF downloadResult(St, workflowId, fileKey, clock) = Null
        THEN CallerStep(download(St, workflowId, fileKey, clock), "webhook 404",
                        workflowId, fileKey)
        ELSE CallerStep(download(St, workflowId, fileKey, clock), "webhook 200",
                        workflowId, fileKey)

\* ------------------------------------------------- the callers' buffers
\* A Buffer is an object. uploadInternal stores the object it was passed in
\* the file (no copy), and download returns the object the file holds (no
\* copy): the caller's buffer, the stored buffer and the returned buffer are
\* one object, whose bytes are the data of the file
WrittenBytes == {0}

\* the storage after buffer[offset] = byte on the object the file holds
WriteStored(s, workflowId, fileKey, offset, byte) ==
  LET wc == WorkflowCache(s, workflowId)
      file == CacheGet(wc.cache, fileKey)
  IN SetWorkflowCache(s, workflowId,
       [wc EXCEPT !.cache =
          CacheSet(wc.cache, [file EXCEPT !.data = SetAt(file.data, offset, byte)])])

\* the offsets of the buffer a file holds
Offsets(s, workflowId, fileKey) ==
  0..(Len(CacheGet(WorkflowCache(s, workflowId).cache, fileKey).data) - 1)

\* download(), the caller keeping the buffer it received
Get(workflowId, fileKey) ==
  CallerStep(download(St, workflowId, fileKey, clock),
             IF downloadResult(St, workflowId, fileKey, clock) = Null
             THEN "get null" ELSE "get",
             workflowId, fileKey)

\* the caller of upload() writes to the buffer it passed, which the file
\* stored under the returned handle still holds
WritePassed(workflowId, fileKey) ==
  /\ HasWorkflow(St, workflowId)
  /\ CacheHas(WorkflowCache(St, workflowId).cache, fileKey)
  /\ \E offset \in Offsets(St, workflowId, fileKey), byte \in WrittenBytes :
        CallerStep(WriteStored(St, workflowId, fileKey, offset, byte),
                   "write passed", workflowId, fileKey)

\* the caller of download() writes to the buffer it has just received
WriteReceived ==
  /\ last.op = "get"
  /\ HasWorkflow(St, last.workflowId)
  /\ CacheHas(WorkflowCache(St, last.workflowId).cache, last.fileKey)
  /\ \E offset \in Offsets(St, last.workflowId, last.fileKey), byte \in WrittenBytes :
        CallerStep(WriteStored(St, last.workflowId, last.fileKey, offset, byte),
                   "write received", last.workflowId, last.fileKey)

\* ------------------------------------------------- the heap on its own
\* a heap operation leaves the heap h1; nothing else of the storage changes
HeapStep(h1) ==
  /\ Install(SetHeap(St, h1))
  /\ UNCHANGED <<uploadLocks, calls, clock, nextKey, env, last>>

\* heapPush of an entry; its key is in the heap already only when handles
\* may repeat
HeapPush(workflowId, fileKey, uploadedAt) ==
  /\ Len(globalUploadQueue) < MaxHeap
  /\ env.collisions
       \/ UPLOAD_QUEUE_INDEX_KEY(workflowId, fileKey) \notin DOMAIN globalUploadQueueIndex
  /\ HeapStep(heapPush(Heap(St), [workflowId |-> workflowId, fileKey |-> fileKey,
                                  uploadedAt |-> uploadedAt]))

HeapPop ==
  /\ Len(globalUploadQueue) > 0
  /\ HeapStep(heapPop(Heap(St)))

\* heapRemove at any position, the position past the end included
HeapRemove(index) ==
  /\ index <= Len(globalUploadQueue)
  /\ HeapStep(heapRemove(Heap(St), index))

\* time passes
Tick ==
  /\ clock < env.maxClock
  /\ clock' = clock + 1
  /\ UNCHANGED <<workflowCaches, globalCacheSize, nextGlobalExpirationTime,
                 globalUploadQueue, globalUploadQueueIndex, uploadLocks, calls, nextKey,
                 env, last>>

\* ------------------------------------------- upload() with its lock protocol
\* a new invocation takes the first free slot
FreeSlot(c) ==
  /\ calls[c].state = "idle"
  /\ \A d \in Calls : d < c => calls[d].state # "idle"

Invocation(state, workflowId, data, contentType, ttl, awaiting, fileKey) ==
  [state |-> state, workflowId |-> workflowId, data |-> data, contentType |-> contentType,
   ttl |-> ttl, at |-> clock, awaiting |-> awaiting, fileKey |-> fileKey, removed |-> FALSE,
   retried |-> FALSE]

\* uploadInternal returned s1 for invocation c, then uploadLocks.set
Running(c, s1, workflowId, data, contentType, ttl, fileKey, locks) ==
  /\ Install(s1)
  /\ calls' = [Track(calls, s1, {<<workflowId, fileKey>>}) EXCEPT ![c] =
        [Invocation("running", workflowId, data, contentType, ttl, 0, fileKey)
           EXCEPT !.retried = (calls[c].state = "waiting")]]
  /\ uploadLocks' = MapSet(locks, workflowId, c)
  /\ nextKey' = nextKey + 1
  /\ last' = last

\* the async IIFE of upload() up to its await, then uploadLocks.set:
\* uploadInternal runs to completion (it has no await) or throws on a missing buffer
RunUpload(c, workflowId, data, contentType, ttl, locks) ==
  IF data = NullBuffer
  THEN /\ UNCHANGED storage
       /\ calls' = [calls EXCEPT ![c] =
             [Invocation("running", workflowId, data, contentType, ttl, 0, 0)
                EXCEPT !.retried = (calls[c].state = "waiting")]]
       /\ uploadLocks' = MapSet(locks, workflowId, c)
       /\ nextKey' = nextKey
       /\ last' = last
  ELSE \E fileKey \in generateFileKey :
         Running(c, uploadInternal(St, workflowId, data, contentType, ttl, fileKey, clock),
                 workflowId, data, contentType, ttl, fileKey, locks)

\* upload() when no lock is registered for the workflow
Upload(c, workflowId, data, contentType, ttl) ==
  /\ FreeSlot(c)
  /\ workflowId \notin DOMAIN uploadLocks
  /\ RunUpload(c, workflowId, data, contentType, ttl, uploadLocks)
  /\ UNCHANGED <<clock, env>>

\* an upload() that waits on the lock of any workflow
UploadWaitAnyTenant(c, workflowId, data, contentType, ttl) ==
  /\ FreeSlot(c)
  /\ \E v \in DOMAIN uploadLocks :
       calls' = [calls EXCEPT ![c] =
          Invocation("waiting", workflowId, data, contentType, ttl, uploadLocks[v], 0)]
  /\ last' = last
  /\ UNCHANGED <<storage, uploadLocks, clock, nextKey, env>>

\* upload() when a lock is registered: await existingLock
UploadWait(c, workflowId, data, contentType, ttl) ==
  /\ FreeSlot(c)
  /\ workflowId \in DOMAIN uploadLocks
  /\ calls' = [calls EXCEPT ![c] =
        Invocation("waiting", workflowId, data, contentType, ttl, uploadLocks[workflowId], 0)]
  /\ last' = last
  /\ UNCHANGED <<storage, uploadLocks, clock, nextKey, env>>

\* a promise that settles without deleting the lock
ReleaseKeepsLock(c) ==
  /\ calls[c].state = "running"
  /\ calls' = [calls EXCEPT ![c].state =
                 IF calls[c].data = NullBuffer THEN "rejected" ELSE "resolved"]
  /\ last' = last
  /\ UNCHANGED <<storage, uploadLocks, clock, nextKey, env>>

\* the finally block of the lock promise, and the promise settling
Release(c) ==
  /\ calls[c].state = "running"
  /\ uploadLocks' = MapDelete(uploadLocks, calls[c].workflowId)
  /\ calls' = [calls EXCEPT ![c].state =
                 IF calls[c].data = NullBuffer THEN "rejected" ELSE "resolved"]
  /\ last' = last
  /\ UNCHANGED <<storage, clock, nextKey, env>>

\* "return await existingLock" when the awaited promise resolved
ResumeResolved(c) ==
  /\ calls[c].state = "waiting"
  /\ calls[calls[c].awaiting].state = "resolved"
  /\ calls' = [calls EXCEPT ![c].state = "resolved",
                            ![c].fileKey = calls[calls[c].awaiting].fileKey,
                            ![c].removed = calls[calls[c].awaiting].removed,
                            ![c].awaiting = 0]
  /\ last' = last
  /\ UNCHANGED <<storage, uploadLocks, clock, nextKey, env>>

\* a waiter that inherits the rejection of the promise it awaited
ResumeRejectedInherits(c) ==
  /\ calls[c].state = "waiting"
  /\ calls[calls[c].awaiting].state = "rejected"
  /\ calls' = [calls EXCEPT ![c].state = "rejected", ![c].awaiting = 0]
  /\ last' = last
  /\ UNCHANGED <<storage, uploadLocks, clock, nextKey, env>>

\* the catch block when the awaited promise rejected, then the caller's own upload
ResumeRejected(c) ==
  /\ calls[c].state = "waiting"
  /\ calls[calls[c].awaiting].state = "rejected"
  /\ RunUpload(c, calls[c].workflowId, calls[c].data, calls[c].contentType, calls[c].ttl,
               MapDelete(uploadLocks, calls[c].workflowId))
  /\ UNCHANGED <<clock, env>>

\* the caller has taken the settled result and nothing awaits the promise
Return(c) ==
  /\ calls[c].state \in {"resolved", "rejected"}
  /\ \A d \in Calls : calls[d].awaiting # c
  /\ calls' = [calls EXCEPT ![c] = Idle]
  /\ last' = last
  /\ UNCHANGED <<storage, uploadLocks, clock, nextKey, env>>

\* the workflows before workflowId in WorkflowOrder have uploaded already
InOrder(workflowId) ==
  \A i \in 1..Len(WorkflowOrder), j \in 1..Len(WorkflowOrder) :
     (WorkflowOrder[j] = workflowId /\ i < j) => HasWorkflow(St, WorkflowOrder[i])

Next ==
  \/ \E w \in Workflows, r \in env.requests :
       InOrder(w) /\ Put(w, r.data, r.contentType, r.ttl)
  \/ \E w \in Workflows, k \in 1..env.maxKeys : Download(w, k)
  \/ \E w \in Workflows, k \in 1..env.maxKeys : Delete(w, k)
  \/ \E w \in Workflows : CleanupWorkflowExpired(w)
  \/ CleanupAllExpired
  \/ \E w \in Workflows : Clear(w)
  \/ ClearAll
  \/ \E w \in Workflows : ValidateCacheSize(w)
  \/ Tick

Spec == Init /\ [][Next]_vars

SpecCollide == InitCollide /\ [][Next]_vars

\* uploads and deletes while nothing expires: every ttl of CapRequests outlasts
\* the clock, so download, the expiry passes and validateCacheSize leave the
\* state as it is; clear and clearAll are exercised under Spec
NextCap ==
  \/ \E w \in Workflows, r \in env.requests :
       InOrder(w) /\ Put(w, r.data, r.contentType, r.ttl)
  \/ \E w \in Workflows, k \in 1..env.maxKeys : Delete(w, k)
  \/ Tick

SpecCap == InitCap /\ [][NextCap]_vars

\* uploads while the global ceiling is out of reach
NextRoomy ==
  \/ \E w \in Workflows, r \in env.requests :
       InOrder(w) /\ Put(w, r.data, r.contentType, r.ttl)
  \/ Tick

SpecRoomy == InitRoomy /\ [][NextRoomy]_vars

\* uploads, deletes and validateCacheSize on recorded sizes that have drifted
NextDrift ==
  \/ \E w \in Workflows, r \in env.requests :
       InOrder(w) /\ Put(w, r.data, r.contentType, r.ttl)
  \/ \E w \in Workflows, k \in 1..env.maxKeys : Delete(w, k)
  \/ \E w \in Workflows : ValidateCacheSize(w)

SpecDrift == InitDrift /\ [][NextDrift]_vars

\* uploads, and retrievals through the webhook
NextWebhook ==
  \/ \E w \in Workflows, r \in env.requests :
       InOrder(w) /\ Put(w, r.data, r.contentType, r.ttl)
  \/ \E w \in Workflows, k \in 1..env.maxKeys : Webhook(w, k)
  \/ Tick

SpecWebhook == Init /\ [][NextWebhook]_vars

\* uploads and downloads by callers that write to their buffers afterwards
NextAlias ==
  \/ \E w \in Workflows, r \in env.requests :
       InOrder(w) /\ Put(w, r.data, r.contentType, r.ttl)
  \/ \E w \in Workflows, k \in 1..env.maxKeys : Get(w, k)
  \/ \E w \in Workflows, k \in 1..env.maxKeys : WritePassed(w, k)
  \/ WriteReceived
  \/ Tick

SpecAlias == Init /\ [][NextAlias]_vars

\* the heap operations in any order, with keys that never repeat or with
\* keys that may
InitHeap ==
  \E collisions \in BOOLEAN :
     Start([collisions |-> collisions, requests |-> {},
            globalMaxCacheSize |-> GLOBAL_MAX_CACHE_SIZE_TIGHT,
            maxKeys |-> IF collisions THEN MaxKeysRepeat ELSE MaxKeysHeap,
            maxClock |-> MaxUploadedAt, history |-> FALSE])

NextHeap ==
  \/ \E w \in Workflows, k \in 1..env.maxKeys, uploadedAt \in 1..env.maxClock :
       HeapPush(w, k, uploadedAt)
  \/ HeapPop
  \/ \E index \in 0..MaxHeap : HeapRemove(index)

SpecHeap == InitHeap /\ [][NextHeap]_vars

\* the program with overlapping upload() invocations
NextLock ==
  \/ \E c \in Calls, w \in Workflows, r \in env.requests :
       InOrder(w) /\ Upload(c, w, r.data, r.contentType, r.ttl)
  \/ \E c \in Calls, w \in Workflows, r \in env.requests :
       UploadWait(c, w, r.data, r.contentType, r.ttl)
  \/ \E c \in Calls : Release(c)
  \/ \E c \in Calls : ResumeResolved(c)
  \/ \E c \in Calls : ResumeRejected(c)
  \/ \E c \in Calls : Return(c)
  \/ \E w \in Workflows, k \in 1..env.maxKeys : Download(w, k)
  \/ \E w \in Workflows, k \in 1..env.maxKeys : Delete(w, k)
  \/ \E w \in Workflows : Clear(w)
  \/ Tick

SpecLock == InitLock /\ [][NextLock]_vars

\* ResumeRejected(c) is enabled: the promise c awaits rejected, and
\* randomUUID() has a handle for the upload of c
RetryDue(c) ==
  /\ calls[c].state = "waiting"
  /\ calls[calls[c].awaiting].state = "rejected"
  /\ calls[c].data = NullBuffer \/ generateFileKey # {}

\* a ResumeRejected(c) step
Retries(c) == RetryDue(c) /\ calls'[c].state # "waiting"

\* the microtask queue runs the continuation of every settled promise: the
\* finally block of a lock promise, and the code after "await existingLock".
\* The third conjunct is WF_vars(ResumeRejected(c)) written out
Microtasks ==
  \A c \in Calls :
     /\ WF_vars(Release(c))
     /\ WF_vars(ResumeResolved(c))
     /\ []<>(~RetryDue(c)) \/ []<><<Retries(c)>>_vars

\* the lock protocol on its own, at one instant: invocations, settlements and
\* clear(workflowId), which deletes a lock from outside
NextLockFair ==
  \/ \E c \in Calls, w \in Workflows, r \in env.requests :
       InOrder(w) /\ Upload(c, w, r.data, r.contentType, r.ttl)
  \/ \E c \in Calls, w \in Workflows, r \in env.requests :
       UploadWait(c, w, r.data, r.contentType, r.ttl)
  \/ \E c \in Calls : Release(c)
  \/ \E c \in Calls : ResumeResolved(c)
  \/ \E c \in Calls : ResumeRejected(c)
  \/ \E c \in Calls : Return(c)
  \/ \E w \in Workflows : Clear(w)

SpecLockFair == InitLockFair /\ [][NextLockFair]_vars /\ Microtasks


\* ------------------------------------------------------------- the claims
\* the files of every workflow, each with its workflowId
Files(s) ==
  UNION {{[workflowId |-> s.workflowCaches[i].workflowId, file |-> s.workflowCaches[i].cache[j]] :
            j \in 1..Len(s.workflowCaches[i].cache)} : i \in 1..Len(s.workflowCaches)}

\* the ttl the caller passed with a stored file
TtlOf(file) ==
  (CHOOSE r \in env.requests : r.data = file.data /\ r.contentType = file.contentType).ttl

\* C4: for every ttl the interface accepts, 0 included, a download later than
\* uploadedAt + ttl misses
C4_ExpiryForEveryTtl ==
  \A f \in Files(St) :
     clock > f.file.uploadedAt + TtlOf(f.file)
       => downloadResult(St, f.workflowId, f.file.fileKey, clock) = Null

\* C4 where the ttl is not 0: the download misses once uploadedAt + ttl passed
C4_ExpiryForPositiveTtl ==
  \A f \in Files(St) :
     (TtlOf(f.file) # 0 /\ clock > f.file.uploadedAt + TtlOf(f.file))
       => downloadResult(St, f.workflowId, f.file.fileKey, clock) = Null

\* a file uploaded with ttl 0 is downloaded after its upload instant
C4_Witness ==
  \E f \in Files(St) :
     /\ TtlOf(f.file) = 0
     /\ clock > f.file.uploadedAt
     /\ downloadResult(St, f.workflowId, f.file.fileKey, clock) # Null

\* C5: every workflow's cacheSize is the sum of its files' sizes, globalCacheSize
\* is the sum of the cacheSizes, and validateCacheSize has nothing to correct
C5_SizeAccounting ==
  /\ \A i \in 1..Len(workflowCaches) :
        /\ workflowCaches[i].cacheSize = SumSizes(workflowCaches[i].cache)
        /\ ~validateResult(St, workflowCaches[i].workflowId)
        /\ validateCacheSize(St, workflowCaches[i].workflowId) = St
  /\ globalCacheSize = GlobalActual(St, 1)

\* an upload removed files, by expiry or eviction, and files remain
C5_Witness ==
  /\ last.op = "upload"
  /\ last.removed # {}
  /\ globalCacheSize > 0
  /\ Len(workflowCaches) = 2

\* C6: every workflow's cacheSize stays within MAX_CACHE_SIZE
C6_WorkflowCapacity ==
  \A i \in 1..Len(workflowCaches) : workflowCaches[i].cacheSize <= MAX_CACHE_SIZE

\* a workflow holds more than MAX_CACHE_SIZE although each file fits alone
C6_Witness ==
  \E i \in 1..Len(workflowCaches) :
     /\ workflowCaches[i].cacheSize > MAX_CACHE_SIZE
     /\ \A j \in 1..Len(workflowCaches[i].cache) :
           Len(workflowCaches[i].cache[j].data) <= MAX_CACHE_SIZE

\* C7: globalCacheSize stays within GLOBAL_MAX_CACHE_SIZE
C7_GlobalCapacity == globalCacheSize <= GLOBAL_MAX_CACHE_SIZE

\* the files held exceed GLOBAL_MAX_CACHE_SIZE after an upload evicted
\* MAX_DELETE_PER_CLEANUP files
C7_Witness ==
  /\ globalCacheSize > GLOBAL_MAX_CACHE_SIZE
  /\ last.op = "upload"
  /\ Cardinality(last.removed) = MAX_DELETE_PER_CLEANUP


\* the step is upload(workflowId, r) run on its own, with the next handle
PutStep(workflowId, r) ==
  /\ nextKey' = nextKey + 1
  /\ St' = uploadInternal(St, workflowId, r.data, r.contentType, r.ttl, nextKey, clock)

\* the workflow holds exactly one unexpired file of size a, the new file has
\* size b, and a + b > MAX_CACHE_SIZE >= b
ScenarioA(workflowId, r) ==
  /\ HasWorkflow(St, workflowId)
  /\ Len(WorkflowCache(St, workflowId).cache) = 1
  /\ clock <= WorkflowCache(St, workflowId).cache[1].expiresAt
  /\ Len(WorkflowCache(St, workflowId).cache[1].data) + Len(r.data) > MAX_CACHE_SIZE
  /\ Len(r.data) <= MAX_CACHE_SIZE

\* C8: in scenario A the upload evicts the first file: downloading it misses
\* afterwards and the workflow's cacheSize is the size of the new file
C8_ScenarioAEvictsFirst ==
  [][\A w \in Workflows, r \in env.requests :
       (PutStep(w, r) /\ ScenarioA(w, r))
         => /\ downloadResult(St', w, WorkflowCache(St, w).cache[1].fileKey, clock') = Null
            /\ WorkflowCache(St', w).cacheSize = Len(r.data)]_vars

\* after an upload in scenario A both files are served and cacheSize is a + b
C8_Witness ==
  /\ last.op = "upload"
  /\ last.removed = {}
  /\ HasWorkflow(St, last.workflowId)
  /\ LET wc == WorkflowCache(St, last.workflowId)
     IN /\ Len(wc.cache) = 2
        /\ wc.cache[2].fileKey = last.fileKey
        /\ wc.cacheSize = Len(wc.cache[1].data) + Len(wc.cache[2].data)
        /\ wc.cacheSize > MAX_CACHE_SIZE
        /\ downloadResult(St, last.workflowId, wc.cache[1].fileKey, clock) # Null

\* the files of a cache with the smallest uploadedAt
Oldest(cache) ==
  {i \in 1..Len(cache) : \A j \in 1..Len(cache) : cache[i].uploadedAt <= cache[j].uploadedAt}

\* the workflow is at capacity for r, nothing in it has expired, the global
\* ceiling is not in play, and removing its oldest file makes r fit
NeedsOneEviction(workflowId, r) ==
  /\ HasWorkflow(St, workflowId)
  /\ LET wc == WorkflowCache(St, workflowId)
     IN /\ Len(wc.cache) > 0
        /\ \A i \in 1..Len(wc.cache) : clock <= wc.cache[i].expiresAt
        /\ globalCacheSize + Len(r.data) <= GLOBAL_MAX_CACHE_SIZE
        /\ wc.cacheSize + Len(r.data) > MAX_CACHE_SIZE
        /\ \A i \in Oldest(wc.cache) :
              wc.cacheSize - Len(wc.cache[i].data) + Len(r.data) <= MAX_CACHE_SIZE

\* the handles of the workflow's files that the step removed
RemovedFrom(workflowId) ==
  {k \in 1..env.maxKeys :
     /\ CacheHas(WorkflowCache(St, workflowId).cache, k)
     /\ ~CacheHas(WorkflowCache(St', workflowId).cache, k)}

\* C9: an upload that needs exactly one eviction in its workflow removes the
\* workflow's file with the smallest uploadedAt and no other file of it
C9_EvictsExactlyOldest ==
  [][\A w \in Workflows, r \in env.requests :
       (PutStep(w, r) /\ NeedsOneEviction(w, r))
         => \E i \in Oldest(WorkflowCache(St, w).cache) :
               RemovedFrom(w) = {WorkflowCache(St, w).cache[i].fileKey}]_vars

\* C9 for a workflow that holds at least two files
C9_EvictsExactlyOldestOfSeveral ==
  [][\A w \in Workflows, r \in env.requests :
       (PutStep(w, r) /\ NeedsOneEviction(w, r) /\ Len(WorkflowCache(St, w).cache) >= 2)
         => \E i \in Oldest(WorkflowCache(St, w).cache) :
               RemovedFrom(w) = {WorkflowCache(St, w).cache[i].fileKey}]_vars

\* an upload that needed one eviction in its workflow removed nothing: the
\* workflow's oldest file is still there and the workflow is over capacity
C9_Witness ==
  /\ last.op = "upload"
  /\ last.removed = {}
  /\ globalCacheSize <= GLOBAL_MAX_CACHE_SIZE
  /\ HasWorkflow(St, last.workflowId)
  /\ WorkflowCache(St, last.workflowId).cacheSize > MAX_CACHE_SIZE
  /\ \E i \in Oldest(WorkflowCache(St, last.workflowId).cache) :
        /\ WorkflowCache(St, last.workflowId).cache[i].fileKey # last.fileKey
        /\ WorkflowCache(St, last.workflowId).cacheSize
             - Len(WorkflowCache(St, last.workflowId).cache[i].data) <= MAX_CACHE_SIZE

\* the state in which cleanupOldestGlobal runs during an upload of r
BeforeGlobalEviction(r) == GlobalExpiry(St, Len(r.data), clock)

AfterGlobalEviction(r) == GlobalEviction(BeforeGlobalEviction(r), Len(r.data))

Holds(a, fileKey) ==
  HasWorkflow(St, a) /\ CacheHas(WorkflowCache(St, a).cache, fileKey)

\* C3 as stated: a download by workflow b of a handle issued to another
\* workflow a always misses
C3_OtherTenantMisses ==
  \A a \in Workflows, b \in Workflows, h \in 1..env.maxKeys :
     (a # b /\ Holds(a, h)) => downloadResult(St, b, h, clock) = Null

\* C3 amended: a download by workflow b of a handle issued to another workflow
\* a misses unless b itself holds a file under an equal handle, and then it
\* returns b's own file
C3_NeverAnothersBlob ==
  \A a \in Workflows, b \in Workflows, h \in 1..env.maxKeys :
     (a # b /\ Holds(a, h))
       => \/ downloadResult(St, b, h, clock) = Null
          \/ /\ Holds(b, h)
             /\ downloadResult(St, b, h, clock)
                  = [data |-> CacheGet(WorkflowCache(St, b).cache, h).data,
                     contentType |-> CacheGet(WorkflowCache(St, b).cache, h).contentType]

\* two workflows hold different files under one handle, and each is served its own
C3_Witness ==
  \E a \in Workflows, b \in Workflows, h \in 1..env.maxKeys :
     /\ a # b /\ Holds(a, h) /\ Holds(b, h)
     /\ CacheGet(WorkflowCache(St, a).cache, h).data
          # CacheGet(WorkflowCache(St, b).cache, h).data
     /\ downloadResult(St, b, h, clock).data = CacheGet(WorkflowCache(St, b).cache, h).data
     /\ downloadResult(St, a, h, clock).data = CacheGet(WorkflowCache(St, a).cache, h).data

\* an upload() of a buffer that resolved, whose file was not evicted, deleted
\* or replaced, and whose ttl has not elapsed
Returned(c) ==
  /\ calls[c].state = "resolved"
  /\ calls[c].data # NullBuffer
  /\ ~calls[c].removed
  /\ clock <= calls[c].at + calls[c].ttl

\* C1: a download with the handle an upload returned gives back the buffer and
\* the content type of that upload
C1_RoundTrip ==
  \A c \in Calls :
     Returned(c)
       => downloadResult(St, calls[c].workflowId, calls[c].fileKey, clock)
            = [data |-> calls[c].data, contentType |-> calls[c].contentType]

\* an upload that waited on another upload's lock resolved with a handle under
\* which another buffer is stored
C1_Witness ==
  \E c \in Calls :
     /\ Returned(c)
     /\ downloadResult(St, calls[c].workflowId, calls[c].fileKey, clock) # Null
     /\ downloadResult(St, calls[c].workflowId, calls[c].fileKey, clock).data # calls[c].data

\* C2: once two uploads of one workflow have returned, and nothing was
\* evicted, expired or deleted, the workflow holds the files of both
C2_BothStored ==
  \A c1 \in Calls, c2 \in Calls :
     (/\ c1 # c2
      /\ calls[c1].state = "resolved" /\ calls[c2].state = "resolved"
      /\ calls[c1].data # NullBuffer /\ calls[c2].data # NullBuffer
      /\ calls[c1].workflowId = calls[c2].workflowId
      /\ ~calls[c1].removed /\ ~calls[c2].removed)
       => \E f1 \in Files(St), f2 \in Files(St) :
             /\ f1.workflowId = calls[c1].workflowId
             /\ f2.workflowId = calls[c1].workflowId
             /\ f1.file.fileKey # f2.file.fileKey
             /\ f1.file.data = calls[c1].data /\ f1.file.contentType = calls[c1].contentType
             /\ f2.file.data = calls[c2].data /\ f2.file.contentType = calls[c2].contentType

\* two uploads of one workflow resolved with the same handle
C2_Witness ==
  \E c1 \in Calls, c2 \in Calls :
     /\ c1 # c2
     /\ calls[c1].state = "resolved" /\ calls[c2].state = "resolved"
     /\ calls[c1].workflowId = calls[c2].workflowId
     /\ calls[c1].fileKey = calls[c2].fileKey
     /\ calls[c1].data # calls[c2].data
     /\ calls[c1].data # NullBuffer /\ calls[c2].data # NullBuffer
     /\ Cardinality({f \in Files(St) : f.workflowId = calls[c1].workflowId}) = 1


\* C11: for every live handle of a workflow the first delete returns true, and
\* a delete after it returns false and leaves the state as it is
C11_DeleteIdempotent ==
  \A w \in Workflows, k \in 1..env.maxKeys :
     Holds(w, k)
       => /\ deleteResult(St, w, k)
          /\ ~deleteResult(delete(St, w, k), w, k)
          /\ delete(delete(St, w, k), w, k) = delete(St, w, k)

\* a delete removed a file, other files remain, and deleting the handle again
\* returns false and changes nothing
C11_Witness ==
  /\ last.op = "delete"
  /\ ~Holds(last.workflowId, last.fileKey)
  /\ ~deleteResult(St, last.workflowId, last.fileKey)
  /\ delete(St, last.workflowId, last.fileKey) = St
  /\ globalCacheSize > 0

\* a file of the workflow whose expiresAt is before now
Expired(w, k) ==
  Holds(w, k) /\ clock > CacheGet(WorkflowCache(St, w).cache, k).expiresAt

\* C12: a download that finds a file whose expiresAt is before now reports a
\* miss and removes the file; the workflow's cacheSize and globalCacheSize are
\* each lower by the file's size afterwards
C12_LazyExpiryOnRead ==
  \A w \in Workflows, k \in 1..env.maxKeys :
     Expired(w, k)
       => /\ downloadResult(St, w, k, clock) = Null
          /\ ~CacheHas(WorkflowCache(download(St, w, k, clock), w).cache, k)
          /\ WorkflowCache(download(St, w, k, clock), w).cacheSize
               = WorkflowCache(St, w).cacheSize
                   - Len(CacheGet(WorkflowCache(St, w).cache, k).data)
          /\ download(St, w, k, clock).globalCacheSize
               = globalCacheSize - Len(CacheGet(WorkflowCache(St, w).cache, k).data)

\* a download removed the only file of a workflow, which expired: the
\* workflow's cacheSize is back to 0
C12_Witness ==
  /\ last.op = "download"
  /\ HasWorkflow(St, last.workflowId)
  /\ ~Holds(last.workflowId, last.fileKey)
  /\ Len(WorkflowCache(St, last.workflowId).cache) = 0
  /\ WorkflowCache(St, last.workflowId).cacheSize = 0
  /\ downloadResult(St, last.workflowId, last.fileKey, clock) = Null


\* call c runs its own uploadInternal in this step
Enters(c) ==
  /\ calls[c].state # "running"
  /\ calls'[c].state = "running"
  /\ calls'[c].data # NullBuffer

\* the files of the other puts of the workflow that have inserted, and were
\* not removed since, are in the cache
OthersStored(c, w) ==
  \A d \in Calls \ {c} :
     (/\ calls[d].workflowId = w
      /\ calls[d].state \in {"running", "resolved"}
      /\ calls[d].fileKey # 0
      /\ ~calls[d].removed)
       => Holds(w, calls[d].fileKey)

\* C13: two puts of one workflow are never both between their capacity check
\* and their insertion: a put's check and insertion are one step of one call,
\* taken on the current state, whose cacheSize is the sum of the sizes of the
\* files stored, those of the workflow's other puts included
C13_CriticalSectionsExclusive ==
  [][\A c \in Calls :
       Enters(c)
         => /\ \A d \in Calls \ {c} : ~Enters(d)
            /\ St' = uploadInternal(St, calls'[c].workflowId, calls'[c].data,
                                    calls'[c].contentType, calls'[c].ttl,
                                    calls'[c].fileKey, clock)
            /\ OthersStored(c, calls'[c].workflowId)
            /\ HasWorkflow(St, calls'[c].workflowId)
                 => WorkflowCache(St, calls'[c].workflowId).cacheSize
                      = SumSizes(WorkflowCache(St, calls'[c].workflowId).cache)]_vars

\* a put of a workflow ran while the promise of an earlier put of the workflow
\* was not taken yet, and the workflow's cacheSize counts the files of both
C13_Witness ==
  \E c \in Calls, d \in Calls :
     /\ c # d
     /\ calls[c].workflowId = calls[d].workflowId
     /\ calls[c].state = "running" /\ calls[d].state \in {"running", "resolved"}
     /\ calls[c].fileKey # 0 /\ calls[d].fileKey # 0
     /\ calls[c].fileKey # calls[d].fileKey
     /\ Holds(calls[c].workflowId, calls[c].fileKey)
     /\ Holds(calls[c].workflowId, calls[d].fileKey)
     /\ Len(WorkflowCache(St, calls[c].workflowId).cache) = 2
     /\ WorkflowCache(St, calls[c].workflowId).cacheSize
          = Len(calls[c].data) + Len(calls[d].data)


\* call c, which carries a buffer, stops waiting on a promise that rejected
ResumesAfterFailure(c) ==
  /\ calls[c].state = "waiting"
  /\ calls[calls[c].awaiting].state = "rejected"
  /\ calls[c].data # NullBuffer
  /\ calls'[c].state # "waiting"

\* C14: a put that threw holds no lock, only a put whose own upload threw
\* rejects, and a put that waited on a failed put runs its own upload: it
\* inserts its own blob under a handle of its own and takes the lock
C14_FailureDoesNotPoisonWaiters ==
  /\ [](\A c \in Calls :
          calls[c].state = "rejected"
            => /\ calls[c].data = NullBuffer
               /\ calls[c].workflowId \in DOMAIN uploadLocks
                    => uploadLocks[calls[c].workflowId] # c)
  /\ [][\A c \in Calls :
          ResumesAfterFailure(c)
            => /\ calls'[c].state = "running"
               /\ calls'[c].fileKey # 0
               /\ St' = uploadInternal(St, calls[c].workflowId, calls[c].data,
                                       calls[c].contentType, calls[c].ttl,
                                       calls'[c].fileKey, clock)
               /\ downloadResult(St', calls[c].workflowId, calls'[c].fileKey, clock')
                    = [data |-> calls[c].data, contentType |-> calls[c].contentType]
               /\ uploadLocks'[calls[c].workflowId] = c]_vars

\* a put that waited on a failed put resolved with the handle of its own blob,
\* and the lock of its workflow is free
C14_Witness ==
  \E c \in Calls :
     /\ calls[c].retried
     /\ calls[c].state = "resolved"
     /\ calls[c].data # NullBuffer
     /\ downloadResult(St, calls[c].workflowId, calls[c].fileKey, clock)
          = [data |-> calls[c].data, contentType |-> calls[c].contentType]
     /\ calls[c].workflowId \notin DOMAIN uploadLocks


\* C15: a put waits only on a put of its own workflow, and the lock of a
\* workflow is held by a put of that workflow: a put of workflow A is not kept
\* waiting by a put of another workflow B
C15_TenantsIndependent ==
  /\ \A c \in Calls :
        calls[c].state = "waiting"
          => /\ calls[calls[c].awaiting].state # "idle"
             /\ calls[calls[c].awaiting].workflowId = calls[c].workflowId
  /\ \A w \in DOMAIN uploadLocks : calls[uploadLocks[w]].workflowId = w

\* puts of two workflows are in flight at once, each holds the lock of its
\* workflow and each has stored its file
C15_Witness ==
  \E c \in Calls, d \in Calls :
     /\ calls[c].state = "running" /\ calls[d].state = "running"
     /\ calls[c].workflowId # calls[d].workflowId
     /\ uploadLocks = (calls[c].workflowId :> c) @@ (calls[d].workflowId :> d)
     /\ Holds(calls[c].workflowId, calls[c].fileKey)
     /\ Holds(calls[d].workflowId, calls[d].fileKey)


\* C16: the handles two completed puts of one workflow returned differ, also
\* when the puts overlapped in time
C16_FreshHandles ==
  \A c \in Calls, d \in Calls :
     (/\ c # d
      /\ calls[c].state = "resolved" /\ calls[d].state = "resolved"
      /\ calls[c].data # NullBuffer /\ calls[d].data # NullBuffer
      /\ calls[c].workflowId = calls[d].workflowId)
       => calls[c].fileKey # calls[d].fileKey

\* two puts of one workflow that overlapped returned one handle: the second
\* was invoked no later than the first settled and did not run an upload of
\* its own
C16_Witness ==
  \E c \in Calls, d \in Calls :
     /\ c # d
     /\ calls[c].state = "resolved" /\ calls[d].state = "resolved"
     /\ calls[c].workflowId = calls[d].workflowId
     /\ calls[c].fileKey = calls[d].fileKey
     /\ calls[c].fileKey # 0
     /\ calls[c].data # NullBuffer /\ calls[d].data # NullBuffer
     /\ ~calls[c].retried /\ ~calls[d].retried


\* a put of the workflow is in flight: it awaits a lock or its own upload
InFlight(w) ==
  \E c \in Calls : calls[c].workflowId = w /\ calls[c].state \in {"running", "waiting"}

\* C17: no lock is leaked and every put returns: a workflow with no put in
\* flight has no entry in uploadLocks, a put that runs its upload settles, and
\* a put that waits stops waiting (unless the handles of the environment ran
\* out for its own upload)
C17_LockLiveness ==
  /\ [](\A w \in DOMAIN uploadLocks : InFlight(w))
  /\ \A c \in Calls :
        (calls[c].state = "running") ~> (calls[c].state \in {"resolved", "rejected"})
  /\ \A c \in Calls :
        (calls[c].state = "waiting")
          ~> (calls[c].state # "waiting" \/ nextKey > env.maxKeys)

\* a put threw, a put succeeded, both settled, and uploadLocks is empty
C17_Witness ==
  /\ uploadLocks = EmptyMap
  /\ \E c \in Calls, d \in Calls :
        /\ calls[c].state = "rejected"
        /\ calls[d].state = "resolved" /\ calls[d].retried
        /\ calls[c].workflowId = calls[d].workflowId
  /\ \A w \in Workflows : ~InFlight(w)


\* C18: a download for an unknown workflow, of an unknown handle or of an
\* expired handle resolves to null; download and delete for an unknown
\* workflow return the miss, create no workflow cache and leave the state as it is
C18_MissIsAValue ==
  \A w \in Workflows, k \in 1..env.maxKeys :
     /\ ~HasWorkflow(St, w)
          => /\ downloadResult(St, w, k, clock) = Null
             /\ download(St, w, k, clock) = St
             /\ ~deleteResult(St, w, k)
             /\ delete(St, w, k) = St
     /\ (HasWorkflow(St, w) /\ ~Holds(w, k)) => downloadResult(St, w, k, clock) = Null
     /\ Expired(w, k) => downloadResult(St, w, k, clock) = Null

\* one workflow is unknown, another holds an expired file and misses a handle
C18_Witness ==
  \E v \in Workflows, w \in Workflows, k \in 1..env.maxKeys, h \in 1..env.maxKeys :
     /\ ~HasWorkflow(St, v)
     /\ Expired(w, k)
     /\ ~Holds(w, h)
     /\ downloadResult(St, v, k, clock) = Null
     /\ downloadResult(St, w, k, clock) = Null
     /\ downloadResult(St, w, h, clock) = Null


\* C19 for a put that runs its own uploadInternal: it stores its blob and
\* returns the handle under which a download serves it, creating the workflow
\* cache on first use, also when eviction did not free enough space
C19_OwnUploadStores ==
  [][\A w \in Workflows, r \in env.requests :
       PutStep(w, r)
         => /\ HasWorkflow(St', w)
            /\ CacheHas(WorkflowCache(St', w).cache, nextKey)
            /\ downloadResult(St', w, nextKey, clock')
                 = [data |-> r.data, contentType |-> r.contentType]]_vars

\* an upload stored its file although eviction stopped at the per-call cap and
\* at the retention floor: both ceilings are exceeded
C19_StoredUnderPressure ==
  /\ last.op = "upload"
  /\ Holds(last.workflowId, last.fileKey)
  /\ downloadResult(St, last.workflowId, last.fileKey, clock) # Null
  /\ globalCacheSize > GLOBAL_MAX_CACHE_SIZE
  /\ WorkflowCache(St, last.workflowId).cacheSize > MAX_CACHE_SIZE


\* C19: every put of a buffer that returns a handle has stored its blob under
\* that handle, whatever the capacity pressure
C19_EveryPutStores ==
  [][\A c \in Calls :
       (/\ calls[c].state # "resolved"
        /\ calls'[c].state = "resolved"
        /\ calls[c].data # NullBuffer
        /\ ~calls'[c].removed)
         => \E f \in Files(St') :
               /\ f.workflowId = calls[c].workflowId
               /\ f.file.fileKey = calls'[c].fileKey
               /\ f.file.data = calls[c].data
               /\ f.file.contentType = calls[c].contentType]_vars

\* a put of a buffer returned a handle and no file of its workflow holds its buffer
C19_Witness ==
  \E c \in Calls :
     /\ calls[c].state = "resolved"
     /\ calls[c].data # NullBuffer
     /\ ~calls[c].removed
     /\ calls[c].fileKey # 0
     /\ \A f \in Files(St) :
           f.workflowId = calls[c].workflowId => f.file.data # calls[c].data


\* C20: for every live handle h of a workflow, queueIndex[h] is defined and the
\* entry of expirationQueue at that position is the entry of h
C20_QueueIndexValid ==
  \A i \in 1..Len(workflowCaches) :
     \A j \in 1..Len(workflowCaches[i].cache) :
        LET h == workflowCaches[i].cache[j].fileKey
        IN /\ h \in DOMAIN workflowCaches[i].queueIndex
           /\ workflowCaches[i].queueIndex[h] < Len(workflowCaches[i].expirationQueue)
           /\ At(workflowCaches[i].expirationQueue, workflowCaches[i].queueIndex[h]).fileKey = h

\* the position recorded for a live handle holds the entry of another live
\* handle of the workflow
C20_Witness ==
  \E i \in 1..Len(workflowCaches) :
     \E j \in 1..Len(workflowCaches[i].cache), k \in 1..Len(workflowCaches[i].cache) :
        LET h == workflowCaches[i].cache[j].fileKey
            g == workflowCaches[i].cache[k].fileKey
        IN /\ h # g
           /\ h \in DOMAIN workflowCaches[i].queueIndex
           /\ workflowCaches[i].queueIndex[h] < Len(workflowCaches[i].expirationQueue)
           /\ At(workflowCaches[i].expirationQueue, workflowCaches[i].queueIndex[h]).fileKey = g


\* C21: every workflow's expirationQueue has as many entries as its cache has
\* files, and when it is not empty nextExpirationTime is the expiresAt of its
\* first entry
C21_ExpiryIndexShape ==
  \A i \in 1..Len(workflowCaches) :
     /\ Len(workflowCaches[i].expirationQueue) = Len(workflowCaches[i].cache)
     /\ Len(workflowCaches[i].expirationQueue) > 0
          => workflowCaches[i].nextExpirationTime
               = Some(workflowCaches[i].expirationQueue[1].expiresAt)

\* a workflow holds an unexpired file and its expirationQueue is empty
C21_Witness ==
  \E i \in 1..Len(workflowCaches) :
     /\ Len(workflowCaches[i].expirationQueue) = 0
     /\ workflowCaches[i].nextExpirationTime = Undefined
     /\ \E j \in 1..Len(workflowCaches[i].cache) :
           clock <= workflowCaches[i].cache[j].expiresAt


\* the positions of the expirationQueue entries of workflow w that name handle k
QueueEntries(s, w, k) ==
  IF HasWorkflow(s, w)
  THEN {i \in 1..Len(WorkflowCache(s, w).expirationQueue) :
          WorkflowCache(s, w).expirationQueue[i].fileKey = k}
  ELSE {}

\* the positions of the globalUploadQueue entries that name handle k of workflow w
HeapEntries(s, w, k) ==
  {i \in 1..Len(s.globalUploadQueue) :
     s.globalUploadQueue[i].workflowId = w /\ s.globalUploadQueue[i].fileKey = k}

\* a step that is delete(w, k) on a live handle
DeleteStep(w, k) ==
  /\ Holds(w, k)
  /\ clock' = clock
  /\ nextKey' = nextKey
  /\ St' = delete(St, w, k)

\* what delete(w, k) does to the cache map, to both size counters and to the heap
DeleteFrameOfMapAndHeap(w, k) ==
  /\ Live(St') = Live(St) \ {<<w, k>>}
  /\ Files(St') = Files(St) \ {[workflowId |-> w, file |-> CacheGet(WorkflowCache(St, w).cache, k)]}
  /\ WorkflowCache(St', w).cacheSize
       = WorkflowCache(St, w).cacheSize - Len(CacheGet(WorkflowCache(St, w).cache, k).data)
  /\ globalCacheSize' = globalCacheSize - Len(CacheGet(WorkflowCache(St, w).cache, k).data)
  /\ HeapEntries(St', w, k) = {}
  /\ \A f \in Live(St) \ {<<w, k>>} :
        Cardinality(HeapEntries(St', f[1], f[2])) = Cardinality(HeapEntries(St, f[1], f[2]))

\* what delete(w, k) does to the expirationQueues
DeleteFrameOfExpiryIndex(w, k) ==
  /\ QueueEntries(St', w, k) = {}
  /\ \A f \in Live(St) \ {<<w, k>>} :
        Cardinality(QueueEntries(St', f[1], f[2])) = Cardinality(QueueEntries(St, f[1], f[2]))

\* C22: a delete of a live handle removes exactly that file from the cache map,
\* the expirationQueue and the heap, lowers cacheSize and globalCacheSize by
\* its size, and every other live file keeps its map entry, its own
\* expirationQueue entry and its own heap entry
C22_DeleteFrame ==
  [][\A w \in Workflows, k \in 1..env.maxKeys :
       DeleteStep(w, k) => DeleteFrameOfMapAndHeap(w, k) /\ DeleteFrameOfExpiryIndex(w, k)]_vars

\* the part of C22 about the cache map, the size counters and the heap
C22_DeleteFrameOfMapAndHeap ==
  [][\A w \in Workflows, k \in 1..env.maxKeys :
       DeleteStep(w, k) => DeleteFrameOfMapAndHeap(w, k)]_vars

\* a delete removed a file, its expirationQueue entry is still there, and a
\* live file of the same workflow has none
C22_Witness ==
  /\ last.op = "delete"
  /\ ~Holds(last.workflowId, last.fileKey)
  /\ QueueEntries(St, last.workflowId, last.fileKey) # {}
  /\ \E k \in 1..env.maxKeys :
        Holds(last.workflowId, k) /\ QueueEntries(St, last.workflowId, k) = {}


\* C23: after an upload to a workflow at time now, the workflow's cache holds
\* no file whose expiresAt is before now
C23_PutExpiresWorkflow ==
  [][\A w \in Workflows, r \in env.requests :
       PutStep(w, r)
         => \A j \in 1..Len(WorkflowCache(St', w).cache) :
               WorkflowCache(St', w).cache[j].expiresAt >= clock]_vars

\* an upload has just stored a file in a workflow that still holds a file
\* whose expiresAt is before now
C23_Witness ==
  /\ last.op = "upload"
  /\ Holds(last.workflowId, last.fileKey)
  /\ CacheGet(WorkflowCache(St, last.workflowId).cache, last.fileKey).uploadedAt = clock
  /\ \E k \in 1..env.maxKeys : Expired(last.workflowId, k)


\* a step that is cleanupAllExpired() at the current time
CleanupAllStep ==
  /\ clock' = clock
  /\ nextKey' = nextKey
  /\ St' = cleanupAllExpired(St, clock)

\* no file whose expiresAt is before now is left
NoneExpiredAfter ==
  \A f \in Files(St') : f.file.expiresAt >= clock

\* the files whose expiresAt is not before now are still in their cache
UnexpiredKept ==
  \A f \in Files(St) : f.file.expiresAt >= clock => f \in Files(St')

\* the files whose expiresAt is not before now keep their expirationQueue
\* entry and their heap entry
UnexpiredStayIndexed ==
  \A f \in Files(St) :
     f.file.expiresAt >= clock
       => /\ Cardinality(QueueEntries(St', f.workflowId, f.file.fileKey))
               = Cardinality(QueueEntries(St, f.workflowId, f.file.fileKey))
          /\ Cardinality(HeapEntries(St', f.workflowId, f.file.fileKey))
               = Cardinality(HeapEntries(St, f.workflowId, f.file.fileKey))

\* C24: after cleanupAllExpired at time now no workflow holds a file whose
\* expiresAt is before now, and every file whose expiresAt is not before now is
\* still in its cache and still has its expirationQueue entry and its heap entry
C24_GlobalExpiryExact ==
  [][CleanupAllStep => NoneExpiredAfter /\ UnexpiredKept /\ UnexpiredStayIndexed]_vars

\* the part of C24 about the cache maps: no file that has not expired is removed
C24_UnexpiredKept ==
  [][CleanupAllStep => UnexpiredKept]_vars

\* the part of C24 about the files that have expired
C24_NoneExpiredAfter ==
  [][CleanupAllStep => NoneExpiredAfter]_vars

\* cleanupAllExpired removed a file, and a file that has not expired is in its
\* cache without an expirationQueue entry
C24_Witness ==
  /\ last.op = "cleanupAllExpired"
  /\ \E f \in Files(St) :
        /\ f.file.expiresAt >= clock
        /\ QueueEntries(St, f.workflowId, f.file.fileKey) = {}


\* C25: every live file has exactly one entry in globalUploadQueue, and the
\* entry carries the file's uploadedAt
C25_HeapCoverage ==
  \A f \in Files(St) :
     /\ Cardinality(HeapEntries(St, f.workflowId, f.file.fileKey)) = 1
     /\ \A i \in HeapEntries(St, f.workflowId, f.file.fileKey) :
           globalUploadQueue[i].uploadedAt = f.file.uploadedAt

\* a live file has two entries in globalUploadQueue
C25_Witness ==
  \E f \in Files(St) : Cardinality(HeapEntries(St, f.workflowId, f.file.fileKey)) = 2


\* C26: globalUploadQueue has as many entries as there are live files,
\* whichever operation removed a file
C26_NoStaleHeapEntries ==
  Len(globalUploadQueue) = Cardinality(Live(St))

\* the heap names a handle that no workflow holds any more
C26_Witness ==
  \E i \in 1..Len(globalUploadQueue) :
     <<globalUploadQueue[i].workflowId, globalUploadQueue[i].fileKey>> \notin Live(St)


\* the files cleanupOldestGlobal removes during an upload of r
GloballyEvicted(r) == Files(BeforeGlobalEviction(r)) \ Files(AfterGlobalEviction(r))

\* the evicted files uploaded last
LastEvicted(r) ==
  {e \in GloballyEvicted(r) :
     \A d \in GloballyEvicted(r) : d.file.uploadedAt <= e.file.uploadedAt}

\* C27: the global eviction of an upload stops as soon as the new file fits
\* under GLOBAL_MAX_CACHE_SIZE: without the last file it evicted the new file
\* would not fit
C27_GlobalEvictionMinimal ==
  [][\A w \in Workflows, r \in env.requests :
       (PutStep(w, r) /\ GloballyEvicted(r) # {})
         => \E e \in LastEvicted(r) :
               AfterGlobalEviction(r).globalCacheSize + Len(e.file.data) + Len(r.data)
                 > GLOBAL_MAX_CACHE_SIZE]_vars

\* an upload evicted two files of another workflow and left room under
\* GLOBAL_MAX_CACHE_SIZE
C27_Witness ==
  /\ last.op = "upload"
  /\ Cardinality({e \in last.removed : e[1] # last.workflowId}) = 2
  /\ Holds(last.workflowId, last.fileKey)
  /\ globalCacheSize < GLOBAL_MAX_CACHE_SIZE


\* C28: a workflow's cacheSize exceeds MAX_CACHE_SIZE by no more than the size
\* of the file most recently inserted into the workflow, no file being larger
\* than MAX_CACHE_SIZE
C28_BoundedOvershoot ==
  \A i \in 1..Len(workflowCaches) :
     /\ Len(workflowCaches[i].cache) = 0 => workflowCaches[i].cacheSize <= MAX_CACHE_SIZE
     /\ Len(workflowCaches[i].cache) > 0
          => workflowCaches[i].cacheSize
               <= MAX_CACHE_SIZE
                    + Len(workflowCaches[i].cache[Len(workflowCaches[i].cache)].data)

\* an upload has just left its workflow above MAX_CACHE_SIZE by more than the
\* size of the file it stored
C28_Witness ==
  /\ last.op = "upload"
  /\ Holds(last.workflowId, last.fileKey)
  /\ WorkflowCache(St, last.workflowId).cacheSize
       > MAX_CACHE_SIZE
           + Len(CacheGet(WorkflowCache(St, last.workflowId).cache, last.fileKey).data)
  /\ WorkflowCache(St, last.workflowId).cache[Len(WorkflowCache(St, last.workflowId).cache)].fileKey
       = last.fileKey


\* the state in which cleanupOldestInWorkflow runs during an upload of r to w
BeforeWorkflowEviction(w, r) ==
  WorkflowExpiry(getOrCreateWorkflowCache(AfterGlobalEviction(r), w), w, Len(r.data), clock)

AfterWorkflowEviction(w, r) ==
  WorkflowEviction(BeforeWorkflowEviction(w, r), w, Len(r.data))

\* the number of files workflow w holds in s
FileCount(s, w) == IF HasWorkflow(s, w) THEN Len(WorkflowCache(s, w).cache) ELSE 0

\* cleanupOldestInWorkflow(w, requiredSpace) run in s leaves MIN_FILES_TO_KEEP
\* files or more, if s has that many
KeepsFloor(s, w, requiredSpace) ==
  FileCount(s, w) >= MIN_FILES_TO_KEEP
    => FileCount(cleanupOldestInWorkflow(s, w, requiredSpace), w) >= MIN_FILES_TO_KEEP

\* C29: cleanupOldestInWorkflow leaves at least MIN_FILES_TO_KEEP files in a
\* workflow that holds that many, whatever the space required: in every
\* reachable state, and where an upload runs it
C29_RetentionFloor ==
  /\ [](\A w \in Workflows, n \in 0..(GLOBAL_MAX_CACHE_SIZE + 1) : KeepsFloor(St, w, n))
  /\ [][\A w \in Workflows, r \in env.requests :
          PutStep(w, r) => KeepsFloor(BeforeWorkflowEviction(w, r), w, Len(r.data))]_vars

\* an upload evicted files of its workflow until MIN_FILES_TO_KEEP were left,
\* and the workflow is above MAX_CACHE_SIZE
C29_Witness ==
  /\ last.op = "upload"
  /\ \E e \in last.removed : e[1] = last.workflowId
  /\ Holds(last.workflowId, last.fileKey)
  /\ FileCount(St, last.workflowId) = MIN_FILES_TO_KEEP + 1
  /\ WorkflowCache(St, last.workflowId).cacheSize > MAX_CACHE_SIZE


\* the live files a call that leaves s1 deleted
DeletedBy(s1) == Live(St) \ Live(s1)

\* C30: one call of cleanupOldestInWorkflow or of cleanupOldestGlobal deletes
\* at most MAX_DELETE_PER_CLEANUP files, whatever the space required
C30_PerCallCap ==
  \A n \in 0..(GLOBAL_MAX_CACHE_SIZE + 1) :
     /\ Cardinality(DeletedBy(cleanupOldestGlobal(St, n))) <= MAX_DELETE_PER_CLEANUP
     /\ \A w \in Workflows :
           Cardinality(DeletedBy(cleanupOldestInWorkflow(St, w, n))) <= MAX_DELETE_PER_CLEANUP

\* an upload evicted MAX_DELETE_PER_CLEANUP files of its workflow and stopped
\* with the workflow still above MAX_CACHE_SIZE and more files than
\* MIN_FILES_TO_KEEP left in it
C30_Witness ==
  /\ last.op = "upload"
  /\ Cardinality({e \in last.removed : e[1] = last.workflowId}) = MAX_DELETE_PER_CLEANUP
  /\ FileCount(St, last.workflowId) > MIN_FILES_TO_KEEP + 1
  /\ WorkflowCache(St, last.workflowId).cacheSize > MAX_CACHE_SIZE
  /\ \E n \in 1..GLOBAL_MAX_CACHE_SIZE :
        Cardinality(DeletedBy(cleanupOldestGlobal(St, n))) = MAX_DELETE_PER_CLEANUP


\* the smallest expiresAt among the files of a cache, undefined for an empty cache
MinExpiresAt(cache) ==
  IF Len(cache) = 0 THEN Undefined
  ELSE Some(CHOOSE t \in {cache[j].expiresAt : j \in 1..Len(cache)} :
              \A j \in 1..Len(cache) : t <= cache[j].expiresAt)

\* C31: every workflow's nextExpirationTime is the smallest expiresAt of the
\* files it holds, and is undefined exactly when it holds none
C31_WorkflowScheduleExact ==
  \A i \in 1..Len(workflowCaches) :
     workflowCaches[i].nextExpirationTime = MinExpiresAt(workflowCaches[i].cache)

\* a workflow holds a file that has expired, and its nextExpirationTime is
\* later than now or undefined, so the lazy expiry pass skips it
C31_Witness ==
  \E i \in 1..Len(workflowCaches) :
     /\ \E j \in 1..Len(workflowCaches[i].cache) :
           clock > workflowCaches[i].cache[j].expiresAt
     /\ \A t \in workflowCaches[i].nextExpirationTime : clock < t


\* C32: while some file is live, nextGlobalExpirationTime is set and is no
\* later than the expiresAt of any live file
C32_GlobalScheduleSafe ==
  Files(St) # {}
    => /\ nextGlobalExpirationTime # Undefined
       /\ \A f \in Files(St) : ValueOf(nextGlobalExpirationTime) <= f.file.expiresAt

\* a file has expired and nextGlobalExpirationTime is later than now or
\* undefined, so cleanupAllExpired returns early
C32_Witness ==
  /\ \E f \in Files(St) : clock > f.file.expiresAt
  /\ \A t \in nextGlobalExpirationTime : clock < t


\* the files of workflows other than w that the step removed
RemovedFromOthers(w) == {f \in Files(St) \ Files(St') : f.workflowId # w}

ReplaceStep(w, r, k) ==
  /\ Holds(w, k)
  /\ nextKey' = nextKey + 1
  /\ St' = uploadInternal(St, w, r.data, r.contentType, r.ttl, k, clock)

\* the state reached by delete(w, k) followed by the upload under handle k
DeleteThenCreate(w, r, k) ==
  uploadInternal(delete(St, w, k), w, r.data, r.contentType, r.ttl, k, clock)

\* C34: an upload under a handle that is live in the workflow leaves the state
\* that delete followed by the upload leaves: both size counters count the new
\* file only, and the handle has exactly one expirationQueue entry and exactly
\* one heap entry
C34_ReplaceIsDeleteThenCreate ==
  [][\A w \in Workflows, r \in env.requests, k \in 1..env.maxKeys :
       ReplaceStep(w, r, k)
         => /\ St' = DeleteThenCreate(w, r, k)
            /\ WorkflowCache(St', w).cacheSize = SumSizes(WorkflowCache(St', w).cache)
            /\ globalCacheSize' = GlobalActual(St', 1)
            /\ Cardinality(QueueEntries(St', w, k)) = 1
            /\ Cardinality(HeapEntries(St', w, k)) = 1]_vars

\* the part of C34 about the size counters
C34_ReplaceCounters ==
  [][\A w \in Workflows, r \in env.requests, k \in 1..env.maxKeys :
       ReplaceStep(w, r, k)
         => /\ WorkflowCache(St', w).cacheSize = SumSizes(WorkflowCache(St', w).cache)
            /\ globalCacheSize' = GlobalActual(St', 1)]_vars

\* a handle was issued twice: the workflow holds one file under it, uploaded
\* after the first one, and the heap holds an entry for each of the two uploads
C34_Witness ==
  \E w \in Workflows, k \in 1..env.maxKeys :
     /\ Holds(w, k)
     /\ nextKey > 2
     /\ Cardinality(QueueEntries(St, w, k)) = 1
     /\ Cardinality(HeapEntries(St, w, k)) = 2
     /\ FileCount(St, w) = 1


\* the sum of the sizes of the files workflow w holds
ActualSize(s, w) == SumSizes(WorkflowCache(s, w).cache)

\* the recorded size of workflow w is off by more than the threshold
OffByMore(s, w) ==
  \/ WorkflowCache(s, w).cacheSize - ActualSize(s, w) > VALIDATION_THRESHOLD
  \/ ActualSize(s, w) - WorkflowCache(s, w).cacheSize > VALIDATION_THRESHOLD

\* the cacheSize of every workflow, in the order of workflowCaches
RecordedSizes(s) == [i \in 1..Len(s.workflowCaches) |-> s.workflowCaches[i].cacheSize]

\* C35: validateCacheSize returns true exactly when the recorded cacheSize
\* differs from the sum of the file sizes by more than VALIDATION_THRESHOLD and
\* then records that sum; otherwise it returns false and changes no counter; it
\* changes no file, and a second call right after it returns false
C35_ValidatorSemantics ==
  \A w \in Workflows :
     HasWorkflow(St, w)
       => /\ validateResult(St, w) <=> OffByMore(St, w)
          /\ validateResult(St, w)
               => WorkflowCache(validateCacheSize(St, w), w).cacheSize = ActualSize(St, w)
          /\ ~validateResult(St, w)
               => /\ RecordedSizes(validateCacheSize(St, w)) = RecordedSizes(St)
                  /\ validateCacheSize(St, w).globalCacheSize = globalCacheSize
          /\ Files(validateCacheSize(St, w)) = Files(St)
          /\ ~validateResult(validateCacheSize(St, w), w)

\* validateCacheSize has just corrected the recorded size of a workflow that
\* holds files, and a second call returns false
C35_Witness ==
  /\ last.op = "validateCacheSize"
  /\ HasWorkflow(St, last.workflowId)
  /\ FileCount(St, last.workflowId) > 0
  /\ WorkflowCache(St, last.workflowId).cacheSize = ActualSize(St, last.workflowId)
  /\ ~validateResult(St, last.workflowId)
  /\ globalCacheSize = GlobalActual(St, 1)


\* C36: isValidFileKey accepts every handle generateFileKey produces: the
\* webhook answers no retrieval of a handle an upload returned with
\* "Invalid fileKey"
C36_GeneratedKeysAccepted ==
  /\ \A text \in RandomUUIDs : isValidFileKey(text)
  /\ last.op # "webhook 400"

\* the webhook has just refused the handle of a file that is live and has not
\* expired
C36_Witness ==
  /\ last.op = "webhook 400"
  /\ Holds(last.workflowId, last.fileKey)
  /\ ~Expired(last.workflowId, last.fileKey)
  /\ downloadResult(St, last.workflowId, last.fileKey, clock) # Null


\* a caller has written to a buffer it passed to upload or received from
\* download
CallerWrote == last'.op \in {"write passed", "write received"}

\* C37: a caller's write to the buffer it passed to upload, or to a buffer it
\* received from download, changes the bytes no later download returns: every
\* handle resolves to the same result after the write as before it
C37_StoredBlobsUnaliased ==
  [][CallerWrote =>
       \A w \in Workflows, k \in 1..env.maxKeys :
          downloadResult(St', w, k, clock') = downloadResult(St, w, k, clock)]_vars

\* a download has just returned a buffer that the caller wrote to after
\* receiving it from an earlier download: the bytes differ from the bytes of
\* every request
C37_Witness ==
  /\ last.op = "get"
  /\ downloadResult(St, last.workflowId, last.fileKey, clock) # Null
  /\ \A r \in env.requests :
        downloadResult(St, last.workflowId, last.fileKey, clock).data # r.data


\* each parent's uploadedAt is at most its children's
MinHeapOrder(h) ==
  \A i \in 1..(Len(h.q) - 1) :
     At(h.q, (i - 1) \div 2).uploadedAt <= At(h.q, i).uploadedAt

\* the position map sends the key of every entry to the entry's position and
\* has no other keys
IndexBijection(h) ==
  /\ \A i \in 0..(Len(h.q) - 1) :
        /\ EntryKey(At(h.q, i)) \in DOMAIN h.idx
        /\ h.idx[EntryKey(At(h.q, i))] = i
  /\ DOMAIN h.idx = {EntryKey(At(h.q, i)) : i \in 0..(Len(h.q) - 1)}

\* C38: after any sequence of heapPush, heapPop and heapRemove at arbitrary
\* positions the heap array is in min-heap order on uploadedAt and the position
\* map is a bijection with the array
C38_IndexedHeapConsistent ==
  MinHeapOrder(Heap(St)) /\ IndexBijection(Heap(St))

\* the min-heap order holds after any sequence of the operations
C38_MinHeapOrder == MinHeapOrder(Heap(St))

\* the position map is a bijection with the array as long as no key is pushed
\* while the heap holds it
C38_ConsistentWithoutRepeats == ~env.collisions => IndexBijection(Heap(St))

\* a key was pushed while the heap held it: two entries of the array have the
\* key, and the position map names one of them
C38_Witness ==
  /\ \E i \in 0..(Len(globalUploadQueue) - 1), j \in 0..(Len(globalUploadQueue) - 1) :
        /\ i # j
        /\ EntryKey(At(globalUploadQueue, i)) = EntryKey(At(globalUploadQueue, j))
  /\ ~IndexBijection(Heap(St))

====
